---------------------------- MODULE Spec2Model ----------------------------
(***************************************************************************)
(* Execution / monitoring engine of miow-context: the plan validator and   *)
(* readiness resolver (enhanced_planner.rs), the health monitor and its    *)
(* loop detector (self_monitor.rs), the autonomous step loop               *)
(* (autonomous.rs), the worker fan-out and the aggregation of the worker    *)
(* results (orchestrator.rs).                                              *)
(*                                                                         *)
(* Each component has its own specifications (SpecPlanner, SpecFallbacks,  *)
(* SpecDriver; SpecMonitor, SpecLoop, SpecHealth, SpecAverage; SpecAgent,  *)
(* SpecSink; SpecWorkers; SpecAggregate) over one set of variables; a      *)
(* specification leaves the variables of the other components at their     *)
(* initial values.                                                         *)
(***************************************************************************)
EXTENDS Integers, Sequences, FiniteSets, TLC

VARIABLES
    \* ---- EnhancedPlanner (enhanced_planner.rs) ----
    created,         \* TRUE once create_plan has returned Ok(plan) to the caller
    plan,            \* the steps of the ExecutionPlan create_plan returned
    validated,       \* last verdict of validate_plan on plan: "unchecked" | "ok" | "err"
    completed_ids,   \* the completed_steps argument of the last get_ready_steps call
    ready,           \* the Vec<&PlanStep> returned by the last get_ready_steps call
    ready_called,    \* TRUE once get_ready_steps has returned for this plan
    \* ---- SelfMonitor (self_monitor.rs) ----
    execution_history,  \* Vec<ExecutionRecord>
    health_metrics,     \* HealthMetrics
    recent_steps,       \* LoopDetector.recent_steps
    now,                \* the monotonic clock read by Instant::now(), in seconds
    issues,             \* the Vec<HealthIssue> returned by the last check_health call
    last_call,          \* the last SelfMonitor method called, with its arguments (for
                        \* check_health the instant of the call)
    calls,              \* number of SelfMonitor methods called so far
    \* ---- AutonomousAgent::run (autonomous.rs) ----
    pc,          \* position of run: the await it is at, or "returned"
    step_index,  \* the loop variable `step` of `for step in 0..max_steps`
    response,    \* what the last generate call of decide_next_step answered
    action,      \* the AgentAction the last decide_next_step call produced
    context,     \* AgentContext: gathered_info (its length and the source of its last
                 \* record), history lines by kind
    queries,     \* number of decide_next_step calls made so far
    event_tx,    \* the event_tx argument: "None", or the state of the channel's receiver
    events,      \* events the channel has accepted so far, by kind, and the last of them
    channel,     \* the mpsc channel behind event_tx: its capacity, and the events waiting
    result,      \* what run returned: "Ok" (the context) or "Err"; "running" before
    \* ---- MiowOrchestrator::execute_workers_sequentially (orchestrator.rs) ----
    search_plan,     \* the SearchPlan argument: worker ids of plan.workers, plan.execution_plan
    fanout_pc,       \* position of the call: "spawning", "joining" or "returned"
    next_entry,      \* index of the execution_plan entry the spawn loop is at
    tasks,           \* the spawned tasks in spawn order: worker id and state of the task
    worker_results,  \* the Vec<WorkerResult> returned, as the ids of the workers
    \* ---- aggregation in MiowOrchestrator::generate_enhanced_prompt (orchestrator.rs) ----
    agg_pc,            \* position: "gathered", "merged", "audited", "compiled"; "idle" before
    results_in,        \* the worker_results being aggregated: worker id, chunks, confidence
    base_context,      \* what gather_comprehensive_context returned
    gathered_context,  \* the mutable gathered_context
    audit_outcome,     \* what the context auditor did: it failed, or the names it pruned
    compiled_context   \* what compile_master_context returned

planner_vars == <<created, plan, validated, completed_ids, ready, ready_called>>

monitor_vars == <<execution_history, health_metrics, recent_steps, now, issues,
                  last_call, calls>>

agent_vars == <<pc, step_index, response, action, context, queries, event_tx, events,
                channel, result>>

fanout_vars == <<search_plan, fanout_pc, next_entry, tasks, worker_results>>

aggregate_vars == <<agg_pc, results_in, base_context, gathered_context, audit_outcome,
                    compiled_context>>

vars == <<planner_vars, monitor_vars, agent_vars, fanout_vars, aggregate_vars>>

other_than_planner == <<monitor_vars, agent_vars, fanout_vars, aggregate_vars>>
other_than_monitor == <<planner_vars, agent_vars, fanout_vars, aggregate_vars>>
other_than_agent == <<planner_vars, monitor_vars, fanout_vars, aggregate_vars>>
other_than_fanout == <<planner_vars, monitor_vars, agent_vars, aggregate_vars>>
other_than_aggregate == <<planner_vars, monitor_vars, agent_vars, fanout_vars>>

(***************************************************************************)
(* Generic helpers                                                         *)
(***************************************************************************)
Range(s) == {s[i] : i \in DOMAIN s}

\* Sequences over S of length at most n with no element repeated
DistinctSeqs(S, n) ==
    UNION {{s \in [1..k -> S] : \A i, j \in 1..k : i # j => s[i] # s[j]} : k \in 0..n}

\* Vec::contains
Contains(s, x) == \E i \in DOMAIN s : s[i] = x

(***************************************************************************)
(* EnhancedPlanner                                                         *)
(***************************************************************************)
\* Step ids a generated plan may use (PlanStep.id / PlanStep.dependencies are Strings)
StepIds == {"step_1", "step_2", "step_3"}

MaxSteps == 3
MaxDeps == 2

\* PlanStep, reduced to the fields the planner's algorithms read
PlanStep(id, deps, fallbacks) ==
    [id |-> id, dependencies |-> deps, fallback_steps |-> fallbacks]

DepLists == DistinctSeqs(StepIds, MaxDeps)

\* id lists of the plans the planning capability can answer with: unique step ids
IdLists == DistinctSeqs(StepIds, MaxSteps)

\* the plan with these step ids and dependency lists (an id in a dependency list that
\* names no step of the plan is a dangling dependency) and no fallback steps
PlanOf(ids, deps) == [i \in 1..Len(ids) |-> PlanStep(ids[i], deps[i], <<>>)]

\* HashMap::insert
MapInsert(m, k, v) == [x \in (DOMAIN m) \cup {k} |-> IF x = k THEN v ELSE m[x]]

EmptyMap == [x \in {} |-> FALSE]

\* all_steps.iter().find(|s| &s.id == dep_id): index of the first step with that id, 0 if none
FindStep(all_steps, dep_id) ==
    IF \E i \in DOMAIN all_steps : all_steps[i].id = dep_id
    THEN CHOOSE i \in DOMAIN all_steps :
            /\ all_steps[i].id = dep_id
            /\ \A j \in 1..(i-1) : all_steps[j].id # dep_id
    ELSE 0

RECURSIVE has_circular_dependency(_, _, _)
RECURSIVE visit_dependencies(_, _, _, _)

RECURSIVE visit_dependencies_missing_is_cycle(_, _, _, _)
\* the dependency loop reporting a dependency that names no step as a cycle
visit_dependencies_missing_is_cycle(step, all_steps, visited, i) ==
    IF i > Len(step.dependencies)
    THEN [found |-> FALSE, visited |-> MapInsert(visited, step.id, FALSE)]
    ELSE LET k == FindStep(all_steps, step.dependencies[i]) IN
         IF k = 0
         THEN [found |-> TRUE, visited |-> visited]
         ELSE LET r == has_circular_dependency(all_steps[k], all_steps, visited) IN
              IF r.found
              THEN [found |-> TRUE, visited |-> r.visited]
              ELSE visit_dependencies_missing_is_cycle(step, all_steps, r.visited, i + 1)

\* the `for dep_id in &step.dependencies` loop of has_circular_dependency, from index i;
\* returns [found, visited]
visit_dependencies(step, all_steps, visited, i) ==
    IF i > Len(step.dependencies)
    THEN [found |-> FALSE, visited |-> MapInsert(visited, step.id, FALSE)]
    ELSE LET k == FindStep(all_steps, step.dependencies[i]) IN
         IF k = 0
         THEN visit_dependencies(step, all_steps, visited, i + 1)
         ELSE LET r == has_circular_dependency(all_steps[k], all_steps, visited) IN
              IF r.found
              THEN [found |-> TRUE, visited |-> r.visited]
              ELSE visit_dependencies(step, all_steps, r.visited, i + 1)

\* has_circular_dependency with the two marker states confused: every step already in
\* the map counts as in progress
has_circular_dependency_any_visited(step, all_steps, visited) ==
    IF step.id \in DOMAIN visited
    THEN [found |-> TRUE, visited |-> visited]
    ELSE visit_dependencies(step, all_steps, MapInsert(visited, step.id, TRUE), 1)

\* has_circular_dependency that also counts a fallback step depending on its own
\* parent as a cycle
has_circular_dependency_via_fallbacks(step, all_steps, visited) ==
    IF step.id \in DOMAIN visited
    THEN [found |-> visited[step.id], visited |-> visited]
    ELSE LET r == visit_dependencies(step, all_steps, MapInsert(visited, step.id, TRUE), 1)
         IN  IF \E f \in DOMAIN step.fallback_steps :
                   Contains(step.fallback_steps[f].dependencies, step.id)
             THEN [found |-> TRUE, visited |-> r.visited]
             ELSE r

\* has_circular_dependency: visited maps a step id to TRUE while the step is in
\* progress and to FALSE once it is resolved; returns [found, visited]
has_circular_dependency(step, all_steps, visited) ==
    IF step.id \in DOMAIN visited
    THEN [found |-> visited[step.id], visited |-> visited]
    ELSE visit_dependencies(step, all_steps, MapInsert(visited, step.id, TRUE), 1)

RECURSIVE validate_from(_, _, _)
\* the `for step in &plan.steps` loop of validate_plan, from index i
validate_from(steps, i, visited) ==
    IF i > Len(steps) THEN "ok"
    ELSE LET r == has_circular_dependency(steps[i], steps, visited) IN
         IF r.found THEN "err" ELSE validate_from(steps, i + 1, r.visited)

\* validate_plan: "ok" for Ok(()), "err" for the "Circular dependency detected" error
validate_plan(steps) == validate_from(steps, 1, EmptyMap)

\* get_ready_steps with the "not already completed" test dropped
get_ready_steps_keep_completed(steps, completed) ==
    SelectSeq(steps, LAMBDA step :
        \A d \in DOMAIN step.dependencies : step.dependencies[d] \in completed)

\* get_ready_steps asking for some completed dependency instead of all of them
get_ready_steps_any_dependency(steps, completed) ==
    SelectSeq(steps, LAMBDA step :
        /\ ~ (step.id \in completed)
        /\ \E d \in DOMAIN step.dependencies : step.dependencies[d] \in completed)

\* get_ready_steps: the steps, in plan order, that pass the filter
get_ready_steps(steps, completed) ==
    SelectSeq(steps, LAMBDA step :
        /\ ~ (step.id \in completed)
        /\ \A d \in DOMAIN step.dependencies : step.dependencies[d] \in completed)

\* create_plan: generate + parse_plan; the parsed plan is returned as it is
CreatePlan ==
    /\ ~ created
    /\ created' = TRUE
    /\ \E ids \in IdLists : \E deps \in [1..Len(ids) -> DepLists] :
          plan' = PlanOf(ids, deps)
    /\ UNCHANGED <<validated, completed_ids, ready, ready_called, other_than_planner>>

\* steps of a plan that carries fallback steps
MaxFallbackPlanSteps == 2

\* the id a fallback step is given
FallbackIds == {"step_1_fallback"}

\* dependency lists in such a plan: nothing, or one id of a step or of a fallback step
FallbackDepLists == {<<>>} \cup {<<d>> : d \in StepIds \cup FallbackIds}

\* fallback_steps of a step: none, or one fallback step with dependencies of its own
FallbackLists ==
    {<<>>} \cup {<<PlanStep(f, deps, <<>>)>> : f \in FallbackIds, deps \in FallbackDepLists}

\* create_plan answering with a plan whose steps carry fallback steps
CreatePlanWithFallbacks ==
    /\ ~ created
    /\ created' = TRUE
    /\ \E ids \in DistinctSeqs(StepIds, MaxFallbackPlanSteps) :
          \E deps \in [1..Len(ids) -> FallbackDepLists] :
             \E fallbacks \in [1..Len(ids) -> FallbackLists] :
                plan' = [i \in 1..Len(ids) |-> PlanStep(ids[i], deps[i], fallbacks[i])]
    /\ UNCHANGED <<validated, completed_ids, ready, ready_called, other_than_planner>>

\* a caller runs validate_plan on the plan it holds
ValidatePlan ==
    /\ created
    /\ validated' = validate_plan(plan)
    /\ UNCHANGED <<created, plan, completed_ids, ready, ready_called, other_than_planner>>

\* a caller runs get_ready_steps on the plan it holds with some completed_steps
GetReadySteps ==
    /\ created
    /\ \E c \in SUBSET StepIds :
          /\ completed_ids' = c
          /\ ready' = get_ready_steps(plan, c)
    /\ ready_called' = TRUE
    /\ UNCHANGED <<created, plan, validated, other_than_planner>>

\* a driver asks for the ready steps of the plan it had validated, nothing completed
\* yet: get_ready_steps(&plan, &[])
DriverStart ==
    /\ validated = "ok"
    /\ ~ ready_called
    /\ completed_ids' = {}
    /\ ready' = get_ready_steps(plan, {})
    /\ ready_called' = TRUE
    /\ UNCHANGED <<created, plan, validated, other_than_planner>>

\* the driver completes one of the steps it was given as ready and asks again with
\* the longer list of completed steps
DriverComplete ==
    /\ ready_called
    /\ \E k \in DOMAIN ready :
          /\ completed_ids' = completed_ids \cup {ready[k].id}
          /\ ready' = get_ready_steps(plan, completed_ids \cup {ready[k].id})
    /\ UNCHANGED <<created, plan, validated, ready_called, other_than_planner>>

(***************************************************************************)
(* SelfMonitor and LoopDetector                                            *)
(***************************************************************************)
\* LoopDetector.max_history set by SelfMonitor::new
max_history == 20
\* check_stuck_state: Duration::from_secs(120)
StuckThreshold == 120
\* check_timeouts: Duration::from_secs(60)
TimeoutThreshold == 60
\* check_failure_rate: total_steps > 5
FailureRateMinSteps == 5
\* check_excessive_retries: retry_count > 3
RetryThreshold == 3

\* the clock advances in steps of the timeout threshold, so that a duration can lie
\* on, below and above each of the two thresholds
TickSeconds == TimeoutThreshold
MaxTicks == 3
\* SelfMonitor methods called in one behaviour of SpecMonitor
MaxCalls == 4
\* record_step_start calls in one behaviour of SpecLoop
MaxLoopSteps == 7
\* steps already started on the warmed-up monitor SpecLoop may begin with
LoopWarmup == 15

\* SelfMonitor methods a caller of SpecHealth calls after its opening calls
HealthCalls == 3
\* record_step_start and record_step_complete calls in one behaviour of SpecAverage
MaxAverageCalls == 5

\* step ids fed to the monitor
MonitorIds == {"A", "B"}
\* step ids fed to the loop detector
LoopIds == {"A", "B", "C", "D"}

\* completed_at: Option<Instant>
None == -1

\* (success, error) arguments of record_step_complete
CompletionArgs == {<<TRUE, "None">>, <<FALSE, "Some">>, <<FALSE, "None">>}
\* keep_recent arguments of cleanup_history
KeepValues == {0, 1, 2}

\* HealthMetrics::default()
DefaultMetrics ==
    [total_steps |-> 0, successful_steps |-> 0, failed_steps |-> 0,
     average_step_duration |-> 0, stuck_count |-> 0, loop_count |-> 0]

\* LoopDetector::add_step
add_step(steps, step_id) ==
    LET pushed == Append(steps, step_id) IN
    IF Len(pushed) > max_history THEN Tail(pushed) ELSE pushed

\* detect_loop comparing only the first id of the two triples
detect_loop_first_of_triple(steps) ==
    LET n == Len(steps) IN
    IF n >= 3 /\ steps[n-2] = steps[n-1] /\ steps[n-1] = steps[n]
    THEN <<[kind |-> "InfiniteLoop", pattern |-> <<"Repeated step", <<steps[n-2]>> >>]>>
    ELSE IF n >= 6 /\ steps[n-5] = steps[n-2]
    THEN <<[kind |-> "InfiniteLoop",
            pattern |-> <<"Repeated pattern", SubSeq(steps, n-5, n-3)>>]>>
    ELSE <<>>

\* LoopDetector::detect_loop: <<>> for None, <<issue>> for Some(issue)
detect_loop(steps) ==
    LET n == Len(steps) IN
    IF n >= 3 /\ steps[n-2] = steps[n-1] /\ steps[n-1] = steps[n]
    THEN <<[kind |-> "InfiniteLoop", pattern |-> <<"Repeated step", <<steps[n-2]>> >>]>>
    ELSE IF n >= 6 /\ SubSeq(steps, n-5, n-3) = SubSeq(steps, n-2, n)
    THEN <<[kind |-> "InfiniteLoop",
            pattern |-> <<"Repeated pattern", SubSeq(steps, n-5, n-3)>>]>>
    ELSE <<>>

\* iter().rev().find(|r| r.step_id == step_id): index of the last record of the id, 0 if none
FindRecord(history, step_id) ==
    IF \E i \in DOMAIN history : history[i].step_id = step_id
    THEN CHOOSE i \in DOMAIN history :
            /\ history[i].step_id = step_id
            /\ \A j \in (i+1)..Len(history) : history[j].step_id # step_id
    ELSE 0

\* update_average_duration, called with the outcome counters already raised; durations
\* are whole seconds here, and Duration's * and / (exact to the nanosecond) give the
\* same value whenever the quotient is a whole number of seconds
update_average_duration(metrics, new_duration) ==
    LET total_completed == metrics.successful_steps + metrics.failed_steps IN
    IF total_completed = 0
    THEN [metrics EXCEPT !.average_step_duration = new_duration]
    ELSE LET current_total == metrics.average_step_duration * (total_completed - 1) IN
         [metrics EXCEPT !.average_step_duration =
                             (current_total + new_duration) \div total_completed]

\* check_stuck_state looking at every open record instead of the last record
check_stuck_state_any_open(history, t) ==
    LET over == {i \in DOMAIN history :
                    history[i].completed_at = None
                    /\ t - history[i].started_at > StuckThreshold}
    IN  IF over # {}
        THEN LET i == CHOOSE k \in over : \A j \in over : k <= j
             IN  <<[kind |-> "StuckState", step_id |-> history[i].step_id,
                    duration |-> t - history[i].started_at]>>
        ELSE <<>>

\* check_stuck_state
check_stuck_state(history, t) ==
    IF history # <<>>
       /\ history[Len(history)].completed_at = None
       /\ t - history[Len(history)].started_at > StuckThreshold
    THEN <<[kind |-> "StuckState", step_id |-> history[Len(history)].step_id,
            duration |-> t - history[Len(history)].started_at]>>
    ELSE <<>>

\* check_failure_rate firing from a rate of exactly one half
check_failure_rate_from_half(metrics) ==
    IF metrics.total_steps > FailureRateMinSteps
       /\ 2 * metrics.failed_steps >= metrics.total_steps
    THEN <<[kind |-> "HighFailureRate",
            rate |-> <<metrics.failed_steps, metrics.total_steps>>]>>
    ELSE <<>>

\* check_failure_rate: failed as f32 / total as f32 > 0.5, which for these small
\* counters is 2 * failed > total
check_failure_rate(metrics) ==
    IF metrics.total_steps > FailureRateMinSteps
       /\ 2 * metrics.failed_steps > metrics.total_steps
    THEN <<[kind |-> "HighFailureRate",
            rate |-> <<metrics.failed_steps, metrics.total_steps>>]>>
    ELSE <<>>

RECURSIVE check_timeouts_from_threshold(_, _)
\* check_timeouts reporting a record from a duration of exactly the threshold on
check_timeouts_from_threshold(history, i) ==
    IF i > Len(history) THEN <<>>
    ELSE LET record == history[i] IN
         (IF record.completed_at # None
             /\ record.completed_at - record.started_at >= TimeoutThreshold
          THEN <<[kind |-> "Timeout", step_id |-> record.step_id,
                  expected |-> TimeoutThreshold,
                  actual |-> record.completed_at - record.started_at]>>
          ELSE <<>>) \o check_timeouts_from_threshold(history, i + 1)

RECURSIVE check_timeouts(_, _)
\* check_timeouts: one finding per closed record over the threshold, from index i
check_timeouts(history, i) ==
    IF i > Len(history) THEN <<>>
    ELSE LET record == history[i] IN
         (IF record.completed_at # None
             /\ record.completed_at - record.started_at > TimeoutThreshold
          THEN <<[kind |-> "Timeout", step_id |-> record.step_id,
                  expected |-> TimeoutThreshold,
                  actual |-> record.completed_at - record.started_at]>>
          ELSE <<>>) \o check_timeouts(history, i + 1)

RECURSIVE check_excessive_retries_from_threshold(_, _)
\* check_excessive_retries reporting a record from its third retry on
check_excessive_retries_from_threshold(history, i) ==
    IF i > Len(history) THEN <<>>
    ELSE LET record == history[i] IN
         (IF record.retry_count >= RetryThreshold
          THEN <<[kind |-> "ExcessiveRetries", step_id |-> record.step_id,
                  retry_count |-> record.retry_count]>>
          ELSE <<>>) \o check_excessive_retries_from_threshold(history, i + 1)

RECURSIVE check_excessive_retries(_, _)
\* check_excessive_retries: one finding per record over the threshold, from index i
check_excessive_retries(history, i) ==
    IF i > Len(history) THEN <<>>
    ELSE LET record == history[i] IN
         (IF record.retry_count > RetryThreshold
          THEN <<[kind |-> "ExcessiveRetries", step_id |-> record.step_id,
                  retry_count |-> record.retry_count]>>
          ELSE <<>>) \o check_excessive_retries(history, i + 1)

\* Instant::now() moves forward between calls
Tick ==
    /\ now + TickSeconds <= MaxTicks * TickSeconds
    /\ now' = now + TickSeconds
    /\ UNCHANGED <<execution_history, health_metrics, recent_steps, issues,
                   last_call, calls, other_than_monitor>>

\* record_step_start(step_id)
RecordStepStart(step_id) ==
    /\ execution_history' = Append(execution_history,
           [step_id |-> step_id, started_at |-> now, completed_at |-> None,
            success |-> FALSE, error |-> "None", retry_count |-> 0])
    /\ recent_steps' = add_step(recent_steps, step_id)
    /\ health_metrics' = [health_metrics EXCEPT !.total_steps = @ + 1]
    /\ last_call' = [op |-> "record_step_start", step_id |-> step_id]
    /\ calls' = calls + 1
    /\ UNCHANGED <<now, issues, other_than_monitor>>

\* record_step_complete that counts a failure in both outcome counters
RecordStepComplete_failure_counted_twice(step_id, success, error) ==
    /\ LET i == FindRecord(execution_history, step_id) IN
       IF i = 0
       THEN UNCHANGED <<execution_history, health_metrics>>
       ELSE LET counted ==
                    IF success
                    THEN [health_metrics EXCEPT !.successful_steps = @ + 1]
                    ELSE [health_metrics EXCEPT !.successful_steps = @ + 1,
                                                !.failed_steps = @ + 1]
                duration == now - execution_history[i].started_at
            IN  /\ execution_history' =
                       [execution_history EXCEPT ![i].completed_at = now,
                                                 ![i].success = success,
                                                 ![i].error = error]
                /\ health_metrics' = update_average_duration(counted, duration)
    /\ last_call' = [op |-> "record_step_complete", step_id |-> step_id,
                     success |-> success]
    /\ calls' = calls + 1
    /\ UNCHANGED <<recent_steps, now, issues, other_than_monitor>>

\* record_step_complete(step_id, success, error)
RecordStepComplete(step_id, success, error) ==
    /\ LET i == FindRecord(execution_history, step_id) IN
       IF i = 0
       THEN UNCHANGED <<execution_history, health_metrics>>
       ELSE LET counted ==
                    IF success
                    THEN [health_metrics EXCEPT !.successful_steps = @ + 1]
                    ELSE [health_metrics EXCEPT !.failed_steps = @ + 1]
                duration == now - execution_history[i].started_at
            IN  /\ execution_history' =
                       [execution_history EXCEPT ![i].completed_at = now,
                                                 ![i].success = success,
                                                 ![i].error = error]
                /\ health_metrics' = update_average_duration(counted, duration)
    /\ last_call' = [op |-> "record_step_complete", step_id |-> step_id,
                     success |-> success]
    /\ calls' = calls + 1
    /\ UNCHANGED <<recent_steps, now, issues, other_than_monitor>>

\* record_retry(step_id)
RecordRetry(step_id) ==
    /\ LET i == FindRecord(execution_history, step_id) IN
       IF i = 0
       THEN UNCHANGED execution_history
       ELSE execution_history' = [execution_history EXCEPT ![i].retry_count = @ + 1]
    /\ last_call' = [op |-> "record_retry", step_id |-> step_id]
    /\ calls' = calls + 1
    /\ UNCHANGED <<health_metrics, recent_steps, now, issues, other_than_monitor>>

\* check_health with the last two detectors run in the other order
CheckHealth_retries_before_timeouts ==
    LET stuck == check_stuck_state(execution_history, now)
        failure == check_failure_rate(health_metrics)
        loop_issue == detect_loop(recent_steps)
    IN  /\ issues' = stuck \o failure \o loop_issue
                       \o check_excessive_retries(execution_history, 1)
                       \o check_timeouts(execution_history, 1)
        /\ health_metrics' =
               [health_metrics EXCEPT !.stuck_count = @ + Len(stuck),
                                      !.loop_count = @ + Len(loop_issue)]
        /\ last_call' = [op |-> "check_health", at |-> now]
        /\ calls' = calls + 1
        /\ UNCHANGED <<execution_history, recent_steps, now, other_than_monitor>>

\* check_health counting a stuck state on every call
CheckHealth_always_counts_stuck ==
    LET stuck == check_stuck_state(execution_history, now)
        failure == check_failure_rate(health_metrics)
        loop_issue == detect_loop(recent_steps)
    IN  /\ issues' = stuck \o failure \o loop_issue
                       \o check_timeouts(execution_history, 1)
                       \o check_excessive_retries(execution_history, 1)
        /\ health_metrics' =
               [health_metrics EXCEPT !.stuck_count = @ + 1,
                                      !.loop_count = @ + Len(loop_issue)]
        /\ last_call' = [op |-> "check_health", at |-> now]
        /\ calls' = calls + 1
        /\ UNCHANGED <<execution_history, recent_steps, now, other_than_monitor>>

\* check_health()
CheckHealth ==
    LET stuck == check_stuck_state(execution_history, now)
        failure == check_failure_rate(health_metrics)
        loop_issue == detect_loop(recent_steps)
    IN  /\ issues' = stuck \o failure \o loop_issue
                       \o check_timeouts(execution_history, 1)
                       \o check_excessive_retries(execution_history, 1)
        /\ health_metrics' =
               [health_metrics EXCEPT !.stuck_count = @ + Len(stuck),
                                      !.loop_count = @ + Len(loop_issue)]
        /\ last_call' = [op |-> "check_health", at |-> now]
        /\ calls' = calls + 1
        /\ UNCHANGED <<execution_history, recent_steps, now, other_than_monitor>>

\* cleanup_history keeping the oldest records instead of the most recent ones
CleanupHistory_keeps_oldest(keep_recent) ==
    /\ execution_history' =
           IF Len(execution_history) > keep_recent
           THEN SubSeq(execution_history, 1, keep_recent)
           ELSE execution_history
    /\ last_call' = [op |-> "cleanup_history", keep_recent |-> keep_recent]
    /\ calls' = calls + 1
    /\ UNCHANGED <<health_metrics, recent_steps, now, issues, other_than_monitor>>

\* cleanup_history(keep_recent)
CleanupHistory(keep_recent) ==
    /\ execution_history' =
           IF Len(execution_history) > keep_recent
           THEN SubSeq(execution_history,
                       Len(execution_history) - keep_recent + 1, Len(execution_history))
           ELSE execution_history
    /\ last_call' = [op |-> "cleanup_history", keep_recent |-> keep_recent]
    /\ calls' = calls + 1
    /\ UNCHANGED <<health_metrics, recent_steps, now, issues, other_than_monitor>>

(***************************************************************************)
(* AutonomousAgent::run                                                    *)
(***************************************************************************)
\* let max_steps = 15
max_steps == 15

\* names registered by AutonomousAgent::new
Registry == {"view_file", "list_dir", "run_command", "write_file", "search"}
\* tool names the decision capability asks for
RequestedTools == {"search", "view_file", "list_dir", "no_such_tool"}
\* `tool == "search" || tool == "view_file"`
GatheringTools == {"search", "view_file"}

\* what self.llm.generate answers: the call fails, or it returns a text that is no
\* JSON object, or a JSON object with some "action" value; a "use_tool" object carries
\* a tool name, or lacks the fields of UseTool
Responses ==
    {[text |-> "generate failed", tool |-> "none"],
     [text |-> "not json", tool |-> "none"],
     [text |-> "done", tool |-> "none"],
     [text |-> "finish", tool |-> "none"],
     [text |-> "use_tool", tool |-> "missing"]}
    \cup {[text |-> "use_tool", tool |-> t] : t \in RequestedTools}

\* decide_next_step: `generate(..).await?`, clean_json, then serde_json::from_str into
\* the enum tagged by "action" with the variants "use_tool" and "done"
decide_next_step(answer) ==
    CASE answer.text = "use_tool" /\ answer.tool # "missing" ->
            [kind |-> "UseTool", tool |-> answer.tool]
      [] answer.text = "done" -> [kind |-> "Done", tool |-> "none"]
      [] OTHER -> [kind |-> "Err", tool |-> "none"]

\* the event_tx argument: no sender, a sender whose receiver takes events, or a sender
\* whose receiver has been dropped
SinkStates == {"None", "open", "closed"}

\* tokio::sync::mpsc::channel(100), the channel generate_stream_handler hands to run
AgentChannelCapacity == 100
\* capacities of the channels other callers of run hand to it
SinkCapacities == {1, 2}

NoResponse == [text |-> "none", tool |-> "none"]
NoAction == [kind |-> "none", tool |-> "none"]
NoEvents == [Step |-> 0, Thought |-> 0, ToolCall |-> 0, ToolOutput |-> 0,
             Error |-> 0, Done |-> 0, last |-> "none"]
\* AgentContext at the start of run; history lines are counted by kind:
\* "Action: UseTool ..", "Output: ..", "Error: <tool error>", "Error: Tool '..' not found"
EmptyContext == [gathered_info |-> 0,
                 last_info |-> "none",
                 history |-> [action |-> 0, output |-> 0, error |-> 0, not_found |-> 0]]

\* `if let Some(tx) = &event_tx { let _ = tx.send(event).await; }`: the channel takes
\* the event when there is a sender and the receiver is alive; a send to a dropped
\* receiver fails and the failure is discarded
Sent(kind) ==
    IF event_tx = "open"
    THEN [events EXCEPT ![kind] = @ + 1, !.last = kind]
    ELSE events

\* tx.send(event).await completes at once unless the receiver is alive and the channel
\* holds as many events as its capacity; then it waits for a free slot
SendReady == event_tx # "open" \/ channel.queued < channel.capacity

\* `if let Some(tx) = &event_tx { let _ = tx.send(event).await; }`
Send(kind) ==
    /\ SendReady
    /\ events' = Sent(kind)
    /\ channel' = IF event_tx = "open"
                  THEN [channel EXCEPT !.queued = @ + 1]
                  ELSE channel

\* agent_rx.recv().await on the other end of the channel takes one waiting event
Receive ==
    /\ event_tx = "open"
    /\ channel.queued > 0
    /\ channel' = [channel EXCEPT !.queued = @ - 1]
    /\ UNCHANGED <<pc, step_index, response, action, context, queries, event_tx, events,
                   result, other_than_agent>>

\* top of the for loop: the range is exhausted and run returns Ok(context)
LoopExit ==
    /\ pc = "loop"
    /\ step_index = max_steps
    /\ pc' = "returned"
    /\ result' = "Ok"
    /\ UNCHANGED <<step_index, response, action, context, queries, event_tx, events, channel, other_than_agent>>

\* the loop running over 0..=max_steps
EmitStep_inclusive_range ==
    /\ pc = "loop"
    /\ step_index <= max_steps
    /\ Send("Step")
    /\ pc' = "decide"
    /\ UNCHANGED <<step_index, response, action, context, queries, event_tx, result, other_than_agent>>

\* top of the for loop: send Step { step: step + 1, max_steps }
EmitStep ==
    /\ pc = "loop"
    /\ step_index < max_steps
    /\ Send("Step")
    /\ pc' = "decide"
    /\ UNCHANGED <<step_index, response, action, context, queries, event_tx, result, other_than_agent>>

\* a failed decision that is logged and skipped instead of returned
DecideFails_skipped(response_in) ==
    /\ pc = "decide"
    /\ decide_next_step(response_in).kind = "Err"
    /\ queries' = queries + 1
    /\ response' = response_in
    /\ step_index' = step_index + 1
    /\ pc' = "loop"
    /\ UNCHANGED <<action, context, event_tx, events, channel, result, other_than_agent>>

\* decide_next_step fails: the generate call fails, or its answer does not parse as
\* one of the two actions (an unknown "action" value included); `?` returns the error
DecideFails(response_in) ==
    /\ pc = "decide"
    /\ decide_next_step(response_in).kind = "Err"
    /\ queries' = queries + 1
    /\ response' = response_in
    /\ pc' = "returned"
    /\ result' = "Err"
    /\ UNCHANGED <<step_index, action, context, event_tx, events, channel, other_than_agent>>

\* decide_next_step answers UseTool { tool, .. }: the action line is pushed to history
DecideUseTool(response_in) ==
    /\ pc = "decide"
    /\ decide_next_step(response_in).kind = "UseTool"
    /\ queries' = queries + 1
    /\ response' = response_in
    /\ action' = decide_next_step(response_in)
    /\ context' = [context EXCEPT !.history.action = @ + 1]
    /\ pc' = "thought"
    /\ UNCHANGED <<step_index, event_tx, events, channel, result, other_than_agent>>

\* decide_next_step answers Done
DecideDone(response_in) ==
    /\ pc = "decide"
    /\ decide_next_step(response_in).kind = "Done"
    /\ queries' = queries + 1
    /\ response' = response_in
    /\ action' = decide_next_step(response_in)
    /\ pc' = "done"
    /\ UNCHANGED <<step_index, context, event_tx, events, channel, result, other_than_agent>>

\* the Thought step sending a second ToolCall in place of the Thought
EmitThought_sent_as_tool_call ==
    /\ pc = "thought"
    /\ Send("ToolCall")
    /\ pc' = "tool_call"
    /\ UNCHANGED <<step_index, response, action, context, queries, event_tx, result, other_than_agent>>

\* send Thought
EmitThought ==
    /\ pc = "thought"
    /\ Send("Thought")
    /\ pc' = "tool_call"
    /\ UNCHANGED <<step_index, response, action, context, queries, event_tx, result, other_than_agent>>

\* send ToolCall and execute the tool without looking it up in the registry
EmitToolCall_lookup_skipped ==
    /\ pc = "tool_call"
    /\ Send("ToolCall")
    /\ pc' = "execute"
    /\ UNCHANGED <<step_index, context, response, action, queries, event_tx, result,
                   other_than_agent>>

\* send ToolCall, then self.tools.get(&tool): a registered tool is executed, for an
\* unknown one the not-found line is pushed and the iteration ends
EmitToolCall ==
    /\ pc = "tool_call"
    /\ Send("ToolCall")
    /\ IF action.tool \in Registry
       THEN /\ pc' = "execute"
            /\ UNCHANGED <<step_index, context, other_than_agent>>
       ELSE /\ context' = [context EXCEPT !.history.not_found = @ + 1]
            /\ step_index' = step_index + 1
            /\ pc' = "loop"
    /\ UNCHANGED <<response, action, queries, event_tx, result, other_than_agent>>

\* tool_impl.execute(args) returns Ok(output)
ExecuteOk ==
    /\ pc = "execute"
    /\ pc' = "tool_output"
    /\ UNCHANGED <<step_index, response, action, context, queries, event_tx, events, channel, result, other_than_agent>>

\* tool_impl.execute(args) returns Err(e)
ExecuteErr ==
    /\ pc = "execute"
    /\ pc' = "tool_error"
    /\ UNCHANGED <<step_index, response, action, context, queries, event_tx, events, channel, result, other_than_agent>>

\* Ok arm recording the output of every tool in gathered_info
EmitToolOutput_gathers_every_tool ==
    /\ pc = "tool_output"
    /\ Send("ToolOutput")
    /\ context' = [context EXCEPT !.history.output = @ + 1,
                                  !.gathered_info = @ + 1,
                                  !.last_info = action.tool]
    /\ step_index' = step_index + 1
    /\ pc' = "loop"
    /\ UNCHANGED <<response, action, queries, event_tx, result, other_than_agent>>

\* Ok arm: send ToolOutput, push the output line, and record the output in
\* gathered_info when the tool is search or view_file
EmitToolOutput ==
    /\ pc = "tool_output"
    /\ Send("ToolOutput")
    /\ context' = [context EXCEPT
                      !.history.output = @ + 1,
                      !.gathered_info = IF action.tool \in GatheringTools THEN @ + 1 ELSE @,
                      !.last_info = IF action.tool \in GatheringTools THEN action.tool ELSE @]
    /\ step_index' = step_index + 1
    /\ pc' = "loop"
    /\ UNCHANGED <<response, action, queries, event_tx, result, other_than_agent>>

\* Err arm that returns the tool's error to the caller
EmitError_propagated ==
    /\ pc = "tool_error"
    /\ Send("Error")
    /\ context' = [context EXCEPT !.history.error = @ + 1]
    /\ pc' = "returned"
    /\ result' = "Err"
    /\ UNCHANGED <<step_index, response, action, queries, event_tx, other_than_agent>>

\* Err arm: send Error, push the error line
EmitError ==
    /\ pc = "tool_error"
    /\ Send("Error")
    /\ context' = [context EXCEPT !.history.error = @ + 1]
    /\ step_index' = step_index + 1
    /\ pc' = "loop"
    /\ UNCHANGED <<response, action, queries, event_tx, result, other_than_agent>>

\* Done arm without the break
EmitDone_no_break ==
    /\ pc = "done"
    /\ Send("Done")
    /\ step_index' = step_index + 1
    /\ pc' = "loop"
    /\ UNCHANGED <<response, action, context, queries, event_tx, result, other_than_agent>>

\* Done arm: send Done, break, return Ok(context)
EmitDone ==
    /\ pc = "done"
    /\ Send("Done")
    /\ pc' = "returned"
    /\ result' = "Ok"
    /\ UNCHANGED <<step_index, response, action, context, queries, event_tx, other_than_agent>>

(***************************************************************************)
(* MiowOrchestrator::execute_workers_sequentially                          *)
(***************************************************************************)
\* worker ids a router plan may use
WorkerIds == {"w1", "w2", "w3"}
\* length of plan.execution_plan
MaxExecPlan == 3

\* how a spawned task can end: the worker returns Ok(result), returns Err(e), or panics
TaskOutcomes == {"ok", "err", "panicked"}

\* plan.execution_plan: any worker ids, in any order, repeated or left out
ExecPlans == UNION {[1..n -> WorkerIds] : n \in 0..MaxExecPlan}

\* the task has run to its end
Finished(task) == task.state \in TaskOutcomes

\* the `for worker_id in &plan.execution_plan` loop: an entry that names a worker of
\* plan.workers is spawned as a task, any other entry is passed over
SpawnEntry ==
    /\ fanout_pc = "spawning"
    /\ next_entry <= Len(search_plan.execution_plan)
    /\ LET worker_id == search_plan.execution_plan[next_entry] IN
       tasks' = IF worker_id \in search_plan.workers
                THEN Append(tasks, [worker_id |-> worker_id, state |-> "running"])
                ELSE tasks
    /\ next_entry' = next_entry + 1
    /\ UNCHANGED <<search_plan, fanout_pc, worker_results, other_than_fanout>>

\* the loop is over: join_all(tasks) is awaited
SpawnDone ==
    /\ fanout_pc = "spawning"
    /\ next_entry > Len(search_plan.execution_plan)
    /\ fanout_pc' = "joining"
    /\ UNCHANGED <<search_plan, next_entry, tasks, worker_results, other_than_fanout>>

\* a spawned task runs on the runtime, concurrently with the caller and its siblings,
\* and ends: Some((worker_id, result)), None, or a panic caught by the runtime
TaskEnds(t, outcome) ==
    /\ t \in DOMAIN tasks
    /\ tasks[t].state = "running"
    /\ tasks' = [tasks EXCEPT ![t].state = outcome]
    /\ UNCHANGED <<search_plan, fanout_pc, next_entry, worker_results, other_than_fanout>>

\* collection that gives up at a task that panicked
Collect_stop_at_panic(joined) ==
    IF \E i \in DOMAIN joined : joined[i].state = "panicked"
    THEN <<>>
    ELSE LET ok == SelectSeq(joined, LAMBDA task : task.state = "ok")
         IN  [i \in DOMAIN ok |-> ok[i].worker_id]

\* the collection loop over the join results, in task order: Ok(Some(..)) is pushed,
\* Ok(None) and Err(JoinError) are passed over
Collect(joined) ==
    LET ok == SelectSeq(joined, LAMBDA task : task.state = "ok")
    IN  [i \in DOMAIN ok |-> ok[i].worker_id]

\* join_all(tasks).await completes once every task has ended; the results are
\* collected and returned
JoinAll ==
    /\ fanout_pc = "joining"
    /\ \A t \in DOMAIN tasks : Finished(tasks[t])
    /\ worker_results' = Collect(tasks)
    /\ fanout_pc' = "returned"
    /\ UNCHANGED <<search_plan, next_entry, tasks, other_than_fanout>>

(***************************************************************************)
(* Aggregation of worker results (generate_enhanced_prompt, phases 4 and 5) *)
(***************************************************************************)
\* number of WorkerResults handed to the aggregation
MaxResults == 2

\* chunk ids the workers return
ChunkIds == {"a", "b"}
\* chunk kinds the workers return
ChunkKinds == {"component", "interface", "schema_type", "model", "util"}
\* WorkerResult.confidence, in tenths
Confidences == {5, 9}

\* str::contains on a chunk kind, for the words the categorisation looks for
KindContains(kind, word) ==
    CASE kind = "component" -> word = "component"
      [] kind = "interface" -> word = "interface"
      [] kind = "schema_type" -> word \in {"schema", "type"}
      [] kind = "model" -> word = "model"
      [] OTHER -> FALSE

\* the if / else if chain that picks the bucket of a chunk
Bucket(kind) ==
    IF KindContains(kind, "component") \/ KindContains(kind, "function") THEN "components"
    ELSE IF KindContains(kind, "type") \/ KindContains(kind, "interface") THEN "types"
    ELSE IF KindContains(kind, "schema") \/ KindContains(kind, "model") THEN "schemas"
    ELSE "helpers"

Buckets == {"components", "types", "schemas", "helpers"}

\* GatheredContext with nothing in its four vectors
EmptyGathered == [b \in Buckets |-> <<>>]

\* miow_llm::ContextItem built from a chunk and its worker's confidence
ContextItem(chunk, confidence) ==
    [name |-> chunk.id, kind |-> chunk.kind, content |-> chunk.content,
     relevance_score |-> confidence]

\* the chunks of a worker: none, or one chunk whose content is the worker's own
ChunkLists(worker_id) ==
    {<<>>} \cup {<<[id |-> i, kind |-> k, content |-> <<"found by", worker_id>>]>> :
                    i \in ChunkIds, k \in ChunkKinds}

\* the WorkerResults worker i can return
ResultsOf(i) ==
    {[worker_id |-> i, chunks |-> c, confidence |-> f] :
        c \in ChunkLists(i), f \in Confidences}

RECURSIVE ResultVecs(_)
\* the Vec<WorkerResult> of n workers, one result for each
ResultVecs(n) ==
    IF n = 0 THEN {<<>>}
    ELSE {Append(r, x) : r \in ResultVecs(n - 1), x \in ResultsOf(n)}

\* contexts gather_comprehensive_context returns: nothing, or a helper named like a chunk
BaseContexts ==
    {EmptyGathered,
     [EmptyGathered EXCEPT !.helpers =
         <<[name |-> "a", kind |-> "util", content |-> <<"gathered", 0>>,
           relevance_score |-> 10]>>]}

RECURSIVE Flatten(_)
\* `for worker_result in worker_results { for chunk in &worker_result.chunks`: the
\* chunks in the order the two loops visit them, each with its worker's confidence
Flatten(results) ==
    IF results = <<>> THEN <<>>
    ELSE [c \in DOMAIN results[1].chunks |->
             [chunk |-> results[1].chunks[c], confidence |-> results[1].confidence]]
         \o Flatten(Tail(results))

RECURSIVE push_chunks(_, _, _)
\* the merge loop of generate_enhanced_prompt from chunk i on: every chunk is pushed
push_chunks(ctx, pairs, i) ==
    IF i > Len(pairs) THEN ctx
    ELSE LET item == ContextItem(pairs[i].chunk, pairs[i].confidence)
             b == Bucket(pairs[i].chunk.kind)
         IN  push_chunks([ctx EXCEPT ![b] = Append(@, item)], pairs, i + 1)

\* "Merge worker results into gathered context"
merge_worker_results(ctx, results) == push_chunks(ctx, Flatten(results), 1)

\* the names of all items of a context
NamesOf(ctx) == UNION {{ctx[b][i].name : i \in DOMAIN ctx[b]} : b \in Buckets}

RECURSIVE push_unseen(_, _, _, _)
\* the merge loop of merge_contexts_rule_based from chunk i on
push_unseen(ctx, seen_names, pairs, i) ==
    IF i > Len(pairs) THEN ctx
    ELSE IF pairs[i].chunk.id \in seen_names
    THEN push_unseen(ctx, seen_names, pairs, i + 1)
    ELSE LET item == ContextItem(pairs[i].chunk, pairs[i].confidence)
             b == Bucket(pairs[i].chunk.kind)
         IN  push_unseen([ctx EXCEPT ![b] = Append(@, item)],
                         seen_names \cup {pairs[i].chunk.id}, pairs, i + 1)

\* merge_contexts_rule_based: the base context, plus every chunk whose id is neither
\* the name of a base item nor the id of a chunk taken before it
merge_contexts_rule_based(results, base) ==
    push_unseen(base, NamesOf(base), Flatten(results), 1)

\* compile_master_context: the base context when no worker ran; otherwise the rule-based
\* merge, which both the LLM path and its fallback end in
compile_master_context(results, base) ==
    IF results = <<>> THEN base ELSE merge_contexts_rule_based(results, base)

\* what the context auditor can do to gathered_context: fail and leave it unfiltered,
\* or prune the items of the names the LLM picked
AuditOutcomes ==
    {[ok |-> FALSE, pruned |-> {}]} \cup {[ok |-> TRUE, pruned |-> d] : d \in SUBSET ChunkIds}

\* the auditor has not run
NoAudit == [ok |-> FALSE, pruned |-> {}]

\* auditor.audit(user_prompt, &mut gathered_context)
audit(ctx, outcome) ==
    IF ~ outcome.ok THEN ctx
    ELSE [b \in Buckets |-> SelectSeq(ctx[b], LAMBDA item : item.name \notin outcome.pruned)]

\* the whole aggregation of generate_enhanced_prompt on given worker results
Aggregate(results, base, outcome) ==
    compile_master_context(results, audit(merge_worker_results(base, results), outcome))

\* phase 4: the chunks of all worker results are merged into gathered_context
MergeWorkerResults ==
    /\ agg_pc = "gathered"
    /\ gathered_context' = merge_worker_results(gathered_context, results_in)
    /\ agg_pc' = "merged"
    /\ UNCHANGED <<results_in, base_context, audit_outcome, compiled_context,
                   other_than_aggregate>>

\* phase 4b: the context auditor
Audit(outcome) ==
    /\ agg_pc = "merged"
    /\ gathered_context' = audit(gathered_context, outcome)
    /\ audit_outcome' = outcome
    /\ agg_pc' = "audited"
    /\ UNCHANGED <<results_in, base_context, compiled_context, other_than_aggregate>>

\* phase 5: compile_master_context(&worker_results, &gathered_context, ..)
CompileMasterContext ==
    /\ agg_pc = "audited"
    /\ compiled_context' = compile_master_context(results_in, gathered_context)
    /\ agg_pc' = "compiled"
    /\ UNCHANGED <<results_in, base_context, gathered_context, audit_outcome,
                   other_than_aggregate>>

(***************************************************************************)
(* Specifications                                                          *)
(***************************************************************************)
\* EnhancedPlanner::new(): no plan requested yet
PlannerIdle ==
    /\ created = FALSE
    /\ plan = <<>>
    /\ validated = "unchecked"
    /\ completed_ids = {}
    /\ ready = <<>>
    /\ ready_called = FALSE

\* SelfMonitor::new()
MonitorIdle ==
    /\ execution_history = <<>>
    /\ health_metrics = DefaultMetrics
    /\ recent_steps = <<>>
    /\ now = 0
    /\ issues = <<>>
    /\ last_call = [op |-> "new"]
    /\ calls = 0

\* no run in progress (the other components' specifications)
AgentIdle ==
    /\ pc = "idle"
    /\ step_index = 0
    /\ response = NoResponse
    /\ action = NoAction
    /\ context = EmptyContext
    /\ queries = 0
    /\ event_tx = "None"
    /\ events = NoEvents
    /\ channel = [capacity |-> AgentChannelCapacity, queued |-> 0]
    /\ result = "running"

\* execute_workers_sequentially not called
FanoutIdle ==
    /\ search_plan = [workers |-> {}, execution_plan |-> <<>>]
    /\ fanout_pc = "idle"
    /\ next_entry = 1
    /\ tasks = <<>>
    /\ worker_results = <<>>

\* no aggregation in progress
AggregateIdle ==
    /\ agg_pc = "idle"
    /\ results_in = <<>>
    /\ base_context = EmptyGathered
    /\ gathered_context = EmptyGathered
    /\ audit_outcome = NoAudit
    /\ compiled_context = EmptyGathered

\* generate_enhanced_prompt holds the worker results and the gathered context
AggregateStart ==
    /\ agg_pc = "gathered"
    /\ \E n \in 0..MaxResults : results_in \in ResultVecs(n)
    /\ base_context \in BaseContexts
    /\ gathered_context = base_context
    /\ audit_outcome = NoAudit
    /\ compiled_context = EmptyGathered

\* execute_workers_sequentially(llm, plan, ..) has been called
FanoutStart ==
    /\ \E w \in SUBSET WorkerIds, e \in ExecPlans :
          search_plan = [workers |-> w, execution_plan |-> e]
    /\ fanout_pc = "spawning"
    /\ next_entry = 1
    /\ tasks = <<>>
    /\ worker_results = <<>>
\* run(task, event_tx) has been called
AgentStart ==
    /\ pc = "loop"
    /\ step_index = 0
    /\ response = NoResponse
    /\ action = NoAction
    /\ context = EmptyContext
    /\ queries = 0
    /\ event_tx \in SinkStates
    /\ events = NoEvents
    /\ channel = [capacity |-> AgentChannelCapacity, queued |-> 0]
    /\ result = "running"

\* the planner and its callers
PlannerInit == PlannerIdle /\ MonitorIdle /\ AgentIdle /\ FanoutIdle /\ AggregateIdle

PlannerNext == CreatePlan \/ ValidatePlan \/ GetReadySteps

SpecPlanner == PlannerInit /\ [][PlannerNext]_vars

\* the planner answering with plans that carry fallback steps, and the validator
FallbackNext == CreatePlanWithFallbacks \/ ValidatePlan

SpecFallbacks == PlannerInit /\ [][FallbackNext]_vars

\* a plan is made and validated, and a driver works through it: it never stops while
\* it holds a ready step
DriverNext == CreatePlan \/ ValidatePlan \/ DriverStart \/ DriverComplete

SpecDriver ==
    PlannerInit /\ [][DriverNext]_vars /\ WF_vars(DriverStart) /\ WF_vars(DriverComplete)

MonitorInit == PlannerIdle /\ MonitorIdle /\ AgentIdle /\ FanoutIdle /\ AggregateIdle

\* any caller of one monitor: every method, any arguments, the clock moving in between
MonitorNext ==
    \/ Tick
    \/ \E id \in MonitorIds : calls < MaxCalls /\ RecordStepStart(id)
    \/ \E id \in MonitorIds, a \in CompletionArgs :
          calls < MaxCalls /\ RecordStepComplete(id, a[1], a[2])
    \/ \E id \in MonitorIds : calls < MaxCalls /\ RecordRetry(id)
    \/ calls < MaxCalls /\ CheckHealth
    \/ \E k \in KeepValues : calls < MaxCalls /\ CleanupHistory(k)

SpecMonitor == MonitorInit /\ [][MonitorNext]_vars

\* a monitor on which LoopWarmup steps have been started, their ids cycling through
\* A, B, C, D, and nothing else has been called
WarmId(i) == CASE i % 4 = 1 -> "A" [] i % 4 = 2 -> "B" [] i % 4 = 3 -> "C" [] OTHER -> "D"

WarmedUp ==
    /\ execution_history =
           [i \in 1..LoopWarmup |->
               [step_id |-> WarmId(i), started_at |-> 0, completed_at |-> None,
                success |-> FALSE, error |-> "None", retry_count |-> 0]]
    /\ health_metrics = [DefaultMetrics EXCEPT !.total_steps = LoopWarmup]
    /\ recent_steps = [i \in 1..LoopWarmup |-> WarmId(i)]
    /\ now = 0
    /\ issues = <<>>
    /\ last_call = [op |-> "record_step_start", step_id |-> WarmId(LoopWarmup)]
    /\ calls = LoopWarmup

LoopInit ==
    PlannerIdle /\ (MonitorIdle \/ WarmedUp) /\ AgentIdle /\ FanoutIdle /\ AggregateIdle

\* steps started since LoopInit
LoopFed ==
    IF health_metrics.total_steps >= LoopWarmup
    THEN health_metrics.total_steps - LoopWarmup
    ELSE health_metrics.total_steps

\* the loop detector fed by a run of step starts and then polled through check_health
\* (check_health leaves the window as it is, so polling earlier changes no later verdict)
LoopNext ==
    \/ /\ last_call.op # "check_health"
       /\ LoopFed < MaxLoopSteps
       /\ \E id \in LoopIds : RecordStepStart(id)
    \/ /\ last_call.op # "check_health"
       /\ CheckHealth

SpecLoop == LoopInit /\ [][LoopNext]_vars
\* the opening calls of a caller that ran five steps to their end (three of them with
\* any outcome, two failing), trimmed the history, and then started a step and retried
\* it three times
WarmScript ==
    LET start(id) == [op |-> "record_step_start", step_id |-> id]
        complete(id, outcomes) ==
            [op |-> "record_step_complete", step_id |-> id, args |-> outcomes]
        retry(id) == [op |-> "record_retry", step_id |-> id]
        failing == {a \in CompletionArgs : ~ a[1]}
    IN  << start("A"), complete("A", CompletionArgs),
           start("B"), complete("B", CompletionArgs),
           start("A"), complete("A", CompletionArgs),
           start("B"), complete("B", failing),
           start("B"), complete("B", failing),
           [op |-> "cleanup_history", keep_recent |-> 0],
           start("A"), retry("A"), retry("A"), retry("A") >>

\* the caller is at a call of its opening
InScript(op) ==
    /\ calls < Len(WarmScript)
    /\ last_call.op # "check_health"
    /\ WarmScript[calls + 1].op = op

\* the caller is past its opening and goes on as it likes
PastScript ==
    /\ calls >= Len(WarmScript)
    /\ calls < Len(WarmScript) + HealthCalls
    /\ last_call.op # "check_health"

HealthInit == PlannerIdle /\ MonitorIdle /\ AgentIdle /\ FanoutIdle /\ AggregateIdle

\* a monitor driven through the opening calls and then freely, the clock moving, and
\* polled once through check_health at any point
HealthNext ==
    \/ InScript("record_step_start") /\ RecordStepStart(WarmScript[calls + 1].step_id)
    \/ /\ InScript("record_step_complete")
       /\ \E a \in WarmScript[calls + 1].args :
             RecordStepComplete(WarmScript[calls + 1].step_id, a[1], a[2])
    \/ InScript("record_retry") /\ RecordRetry(WarmScript[calls + 1].step_id)
    \/ InScript("cleanup_history") /\ CleanupHistory(WarmScript[calls + 1].keep_recent)
    \/ PastScript /\ Tick
    \/ \E id \in MonitorIds : PastScript /\ RecordStepStart(id)
    \/ \E id \in MonitorIds, a \in CompletionArgs :
          PastScript /\ RecordStepComplete(id, a[1], a[2])
    \/ \E id \in MonitorIds : PastScript /\ RecordRetry(id)
    \/ last_call.op # "check_health" /\ CheckHealth

SpecHealth == HealthInit /\ [][HealthNext]_vars

\* a caller that only starts and completes steps, the clock moving in between
AverageInit == PlannerIdle /\ MonitorIdle /\ AgentIdle /\ FanoutIdle /\ AggregateIdle

AverageNext ==
    \/ Tick
    \/ \E id \in MonitorIds : calls < MaxAverageCalls /\ RecordStepStart(id)
    \/ \E id \in MonitorIds, a \in CompletionArgs :
          calls < MaxAverageCalls /\ RecordStepComplete(id, a[1], a[2])

SpecAverage == AverageInit /\ [][AverageNext]_vars

\* one call of run
AgentInit == PlannerIdle /\ MonitorIdle /\ AgentStart /\ FanoutIdle /\ AggregateIdle

AgentNext ==
    \/ LoopExit
    \/ EmitStep
    \/ \E r \in Responses : DecideFails(r)
    \/ \E r \in Responses : DecideUseTool(r)
    \/ \E r \in Responses : DecideDone(r)
    \/ EmitThought
    \/ EmitToolCall
    \/ ExecuteOk
    \/ ExecuteErr
    \/ EmitToolOutput
    \/ EmitError
    \/ EmitDone

\* with the 100 slots of AgentChannelCapacity and at most 4 events in each of the 15
\* iterations no send of such a run waits, whatever the receiving end does
SpecAgent == AgentInit /\ [][AgentNext]_vars

\* run(task, event_tx) called by a caller that made the channel smaller
SinkStart ==
    /\ pc = "loop"
    /\ step_index = 0
    /\ response = NoResponse
    /\ action = NoAction
    /\ context = EmptyContext
    /\ queries = 0
    /\ event_tx \in SinkStates
    /\ events = NoEvents
    /\ \E c \in SinkCapacities : channel = [capacity |-> c, queued |-> 0]
    /\ result = "running"

SinkInit == PlannerIdle /\ MonitorIdle /\ SinkStart /\ FanoutIdle /\ AggregateIdle

\* answers of the decision capability in the runs of SpecSink
SinkResponses ==
    {r \in Responses : r.text \in {"done", "not json"} \/ r.tool = "list_dir"}

\* the steps of the run future
RunStep ==
    \/ LoopExit
    \/ EmitStep
    \/ \E r \in SinkResponses : DecideFails(r)
    \/ \E r \in SinkResponses : DecideUseTool(r)
    \/ \E r \in SinkResponses : DecideDone(r)
    \/ EmitThought
    \/ EmitToolCall
    \/ ExecuteOk
    \/ ExecuteErr
    \/ EmitToolOutput
    \/ EmitError
    \/ EmitDone

SinkNext == RunStep \/ Receive

\* the runtime polls the run future whenever it can make a step; nothing obliges the
\* holder of the receiver to call recv
SpecSink == SinkInit /\ [][SinkNext]_vars /\ WF_vars(RunStep)

\* one call of execute_workers_sequentially
WorkersInit == PlannerIdle /\ MonitorIdle /\ AgentIdle /\ FanoutStart /\ AggregateIdle

WorkersNext ==
    \/ SpawnEntry
    \/ SpawnDone
    \/ \E t \in 1..MaxExecPlan, outcome \in TaskOutcomes : TaskEnds(t, outcome)
    \/ JoinAll

SpecWorkers == WorkersInit /\ [][WorkersNext]_vars

\* one pass of generate_enhanced_prompt through its aggregation phases
AggregateInit == PlannerIdle /\ MonitorIdle /\ AgentIdle /\ FanoutIdle /\ AggregateStart

AggregateNext ==
    \/ MergeWorkerResults
    \/ \E outcome \in AuditOutcomes : Audit(outcome)
    \/ CompileMasterContext

SpecAggregate == AggregateInit /\ [][AggregateNext]_vars
(***************************************************************************)
(* Properties of the step loop                                             *)
(***************************************************************************)
\* history lines pushed by the tool stage of the iterations so far
ToolLines == context.history.output + context.history.error + context.history.not_found

\* C6: once the decision is Done the loop only emits Done and returns Ok: no further
\* Step event, no further query, no tool run, nothing added to history or
\* gathered_info; when the first decision is Done the run ends in iteration 1 with
\* the context as it started.
C6_DoneStopsAtOnce ==
    /\ [][ (pc = "decide" /\ action'.kind = "Done")
             => (pc' = "done" /\ context' = context /\ events' = events) ]_vars
    /\ [][ action.kind = "Done"
             => /\ pc = "done" /\ pc' = "returned" /\ result' = "Ok"
                /\ context' = context /\ queries' = queries /\ step_index' = step_index
                /\ \A k \in {"Step", "Thought", "ToolCall", "ToolOutput", "Error"} :
                      events'[k] = events[k]
                /\ event_tx = "open" => (events'.Done = 1 /\ events'.last = "Done") ]_vars
    /\ [](action.kind = "Done" => queries = step_index + 1)
    /\ []((pc = "returned" /\ action.kind = "Done" /\ queries = 1)
             => (result = "Ok" /\ context = EmptyContext))

\* Done decided in the third iteration, after a search and a failed tool: returned
C6_Witness ==
    /\ pc = "returned"
    /\ action.kind = "Done"
    /\ queries = 3
    /\ context.gathered_info = 1
    /\ context.history.error = 1
    /\ events.Done = 1
    /\ events.Step = 3

\* C7: decide_next_step is called at most 15 times in a run; a run that returns
\* without a Done decision and without a failed decision has made exactly 15
\* iterations and returns Ok(context); when every decision asked for a tool that is
\* not registered, the returned history has exactly 15 not-found lines.
C7_FifteenIterations ==
    /\ queries <= 15
    /\ (pc = "returned" /\ action.kind # "Done" /\ result # "Err")
          => (result = "Ok" /\ queries = 15 /\ step_index = 15 /\ ToolLines = 15)
    /\ (pc = "returned" /\ result = "Ok" /\ action.kind # "Done"
           /\ context.history.not_found = context.history.action)
          => (context.history.not_found = 15 /\ context.gathered_info = 0)

\* the run in which all 15 decisions asked for an unregistered tool
C7_Witness ==
    /\ pc = "returned"
    /\ result = "Ok"
    /\ context.history.not_found = 15
    /\ queries = 15
    /\ events.ToolCall = 15

\* C8: a failed decide_next_step in iteration k ends the run in that iteration with
\* the error as the result: no tool line is pushed for iteration k, no further
\* iteration starts, nothing happens afterwards and the result is not a context.
C8_DecisionFailureAborts ==
    /\ []((queries > 0 /\ decide_next_step(response).kind = "Err")
             => /\ pc = "returned"
                /\ result = "Err"
                /\ queries = step_index + 1
                /\ context.history.action = step_index
                /\ ToolLines = step_index)
    /\ [][ result = "Err" => FALSE ]_vars

\* an answer with an unknown "action" value in the second iteration, after a tool ran
C8_Witness ==
    /\ result = "Err"
    /\ pc = "returned"
    /\ response.text = "finish"
    /\ queries = 2
    /\ context.history.output = 1

\* the step taken when the requested tool is not registered
ToolNotFoundStep == pc = "tool_call" /\ action.tool \notin Registry /\ pc' # pc
\* the step taken when the tool's execution failed
ToolFailedStep == pc = "tool_error" /\ pc' # pc

\* C9 as claimed: on tool-not-found and on a failed tool execution alike, an error
\* line is pushed to history, the failure is emitted as an event to the sink, and
\* the run goes on to the next iteration.
C9_BothFailuresEmitted ==
    [][ (ToolNotFoundStep \/ ToolFailedStep)
          => /\ context'.history.error + context'.history.not_found
                   = context.history.error + context.history.not_found + 1
             /\ event_tx = "open" => events'.Error = events.Error + 1
             /\ pc' = "loop" /\ result' = "running" ]_vars

\* C9 as the code has it: neither failure ends the run, each pushes its error line
\* and moves to the next iteration with the context kept; a failed tool execution is
\* emitted to an attached sink as an Error event, tool-not-found emits no event
\* beyond the ToolCall already sent; only a failed decision makes run return an error.
C9_ToolFailuresRecovered ==
    /\ [][ ToolNotFoundStep
             => /\ context'.history.not_found = context.history.not_found + 1
                /\ events'.Error = events.Error
                /\ events'.ToolCall = events.ToolCall + (IF event_tx = "open" THEN 1 ELSE 0)
                /\ context'.gathered_info = context.gathered_info
                /\ step_index' = step_index + 1
                /\ pc' = "loop" /\ result' = "running" ]_vars
    /\ [][ ToolFailedStep
             => /\ context'.history.error = context.history.error + 1
                /\ events'.Error = events.Error + (IF event_tx = "open" THEN 1 ELSE 0)
                /\ context'.gathered_info = context.gathered_info
                /\ step_index' = step_index + 1
                /\ pc' = "loop" /\ result' = "running" ]_vars
    /\ [][ result' = "Err" => pc = "decide" ]_vars
    /\ []((pc = "returned" /\ result = "Ok" /\ action.kind # "Done")
             => ToolLines = 15)

\* a run that met a failed tool and an unregistered tool and still returned its context
C9_Witness ==
    /\ pc = "returned"
    /\ result = "Ok"
    /\ context.history.error >= 1
    /\ context.history.not_found >= 1
    /\ event_tx = "open"
    /\ events.Error = context.history.error

\* C14: with a sink attached, the events of a run come in per-iteration order: the
\* k-th Step event is sent in iteration k (k = 1, 2, .. at most 15) and follows the
\* end of iteration k-1 (its ToolOutput or Error, or its ToolCall when the tool was
\* not found); Thought follows the Step of its iteration, ToolCall the Thought, a
\* ToolOutput or Error the ToolCall, at most one of them per iteration; Done follows
\* the Step of its iteration and nothing is sent after it; the history lines keep
\* step with the events (action line before Thought, output and error lines with
\* their events).
C14_OrderedTrace ==
    /\ [][ (event_tx = "open" /\ events' # events) =>
             /\ \E k \in {"Step", "Thought", "ToolCall", "ToolOutput", "Error", "Done"} :
                   /\ events'.last = k
                   /\ events' = [events EXCEPT ![k] = @ + 1, !.last = k]
             /\ events'.last = "Step" =>
                   /\ events.last \in {"none", "ToolCall", "ToolOutput", "Error"}
                   /\ events'.Step = step_index + 1
                   /\ events'.Step <= max_steps
                   /\ ToolLines = step_index
             /\ events'.last = "Thought" =>
                   /\ events.last = "Step"
                   /\ events'.Thought = events.Step
                   /\ context.history.action = events.Step
             /\ events'.last = "ToolCall" =>
                   /\ events.last = "Thought"
                   /\ events'.ToolCall = events.Step
             /\ events'.last \in {"ToolOutput", "Error"} =>
                   /\ events.last = "ToolCall"
                   /\ events'.ToolOutput + events'.Error + context.history.not_found
                         = events.Step
                   /\ context'.history.output = events'.ToolOutput
                   /\ context'.history.error = events'.Error
             /\ events'.last = "Done" =>
                   /\ events.last = "Step"
                   /\ events'.Done = 1 ]_vars
    /\ [][ events.last = "Done" => events' = events ]_vars
    /\ [](event_tx = "open" =>
             /\ events.Step \in {step_index, step_index + 1}
             /\ events.Thought <= events.Step /\ events.Step <= events.Thought + 1
             /\ events.ToolCall <= events.Thought /\ events.Thought <= events.ToolCall + 1
             /\ context.history.output = events.ToolOutput
             /\ context.history.error = events.Error)

\* a run of three iterations watched through its sink: a tool that ran, a tool that
\* was not found, then Done
C14_Witness ==
    /\ pc = "returned"
    /\ event_tx = "open"
    /\ events.last = "Done"
    /\ events.Step = 3
    /\ events.Thought = 2
    /\ events.ToolCall = 2
    /\ events.ToolOutput = 1
    /\ events.Error = 0
    /\ context.history.not_found = 1

\* the iteration at hand ends with this step
IterationEnds == step_index' = step_index + 1 \/ (pc # "returned" /\ pc' = "returned")

\* the iteration at hand found and executed search or view_file successfully
GatheredNow == pc = "tool_output" /\ action.tool \in {"search", "view_file"}

\* C25: gathered_info only grows, and by one record at a time, pushed at its end (its
\* last record is the one of the latest gathering execution); an iteration adds a
\* record exactly when its tool is search or view_file, was found in
\* the registry and was executed successfully, and every other iteration (another
\* tool, tool not found, tool failure, done) leaves it as it is; its length never
\* exceeds the number of successful tool executions.
C25_GatheredInfoGrowth ==
    /\ [](/\ context.gathered_info <= context.history.output
          /\ context.gathered_info = 0 <=> context.last_info = "none")
    /\ [][ (context'.gathered_info # context.gathered_info
               \/ context'.last_info # context.last_info) =>
             /\ GatheredNow
             /\ IterationEnds
             /\ context'.gathered_info = context.gathered_info + 1
             /\ context'.history.output = context.history.output + 1 ]_vars
    /\ [][ (IterationEnds /\ GatheredNow)
             => /\ context'.gathered_info = context.gathered_info + 1
                /\ context'.last_info = action.tool ]_vars
    /\ [][ (IterationEnds /\ ~ GatheredNow)
             => /\ context'.gathered_info = context.gathered_info
                /\ context'.last_info = context.last_info ]_vars

\* a run that ended by done after two gathering executions, the later of them a
\* view_file, one successful execution of another tool, a tool failure and a tool
\* that was not found
C25_Witness ==
    /\ pc = "returned"
    /\ result = "Ok"
    /\ action.kind = "Done"
    /\ context.gathered_info = 2
    /\ context.last_info = "view_file"
    /\ context.history.output = 3
    /\ context.history.error = 1
    /\ context.history.not_found = 1

\* the sink takes an event of one of these kinds with this step
Emits(kinds) == events' # events /\ events'.last \in kinds

\* C30 as claimed: in the trace of a run every ToolCall is followed by exactly one
\* ToolOutput or Error before the next Step or the end of the trace, also when the
\* requested tool is not in the registry.
C30_ToolCallAlwaysAnswered ==
    /\ [][ Emits({"ToolOutput", "Error"}) => events.last = "ToolCall" ]_vars
    /\ [][ Emits({"Step"}) => events.last # "ToolCall" ]_vars
    /\ [](pc = "returned" => events.last # "ToolCall")

\* C30 as the code has it: a ToolOutput or Error is only sent right after a ToolCall
\* and only for a tool of the registry; the ToolCall of a registered tool is followed
\* by exactly one of them before the next Step or the end of the trace, the ToolCall
\* of a tool that is not in the registry by none: the next event is the next Step, or
\* the trace ends with the ToolCall.
C30_ToolCallAnsweredWhenRegistered ==
    /\ [][ Emits({"ToolOutput", "Error"})
             => (events.last = "ToolCall" /\ action.tool \in Registry) ]_vars
    /\ [][ (Emits({"Step"}) /\ events.last = "ToolCall")
             => action.tool \notin Registry ]_vars
    /\ [][ (pc = "tool_call" /\ pc' # pc /\ action.tool \notin Registry)
             => /\ pc' = "loop"
                /\ event_tx = "open" => events'.last = "ToolCall" ]_vars
    /\ []((pc = "returned" /\ events.last = "ToolCall")
             => (action.tool \notin Registry /\ step_index = max_steps))
    /\ []((event_tx = "open" /\ pc \in {"loop", "returned"})
             => events.ToolCall
                   = events.ToolOutput + events.Error + context.history.not_found)

\* a trace that ends with the ToolCall of a tool that was not found, in a run whose
\* earlier tool calls were answered by a ToolOutput and by an Error
C30_Witness ==
    /\ pc = "returned"
    /\ result = "Ok"
    /\ event_tx = "open"
    /\ events.last = "ToolCall"
    /\ events.ToolOutput >= 1
    /\ events.Error >= 1
    /\ events.ToolCall = 15

\* C11: whatever the sink is (absent, closed, or alive with its channel full and
\* never drained) no send holds the loop up, so every run comes to its end and returns.
C11_SinkNeverBlocks == <>(pc = "returned")

(***************************************************************************)
(* Properties of the worker fan-out                                        *)
(***************************************************************************)
\* C10: whatever the interleaving and whichever tasks fail, by an error or by a
\* panic, the call returns only when every spawned task has ended, and it returns
\* one result for each task that succeeded, in spawn order, and none for a failed
\* one; when every task failed the result is empty.
C10_JoinCollectsSurvivors ==
    fanout_pc = "returned" =>
        /\ \A t \in DOMAIN tasks : Finished(tasks[t])
        /\ Len(worker_results) = Cardinality({t \in DOMAIN tasks : tasks[t].state = "ok"})
        /\ \E pos \in [DOMAIN worker_results -> DOMAIN tasks] :
              /\ \A i, j \in DOMAIN worker_results : i < j => pos[i] < pos[j]
              /\ \A i \in DOMAIN worker_results :
                    /\ tasks[pos[i]].state = "ok"
                    /\ tasks[pos[i]].worker_id = worker_results[i]
        /\ (\A t \in DOMAIN tasks : tasks[t].state # "ok") => worker_results = <<>>

\* three workers spawned, one returned an error, one panicked, one succeeded
C10_Witness ==
    /\ fanout_pc = "returned"
    /\ Len(tasks) = 3
    /\ \E a, b, c \in DOMAIN tasks :
          /\ tasks[a].state = "err"
          /\ tasks[b].state = "panicked"
          /\ tasks[c].state = "ok"
          /\ worker_results = <<tasks[c].worker_id>>

\* C15: once the spawn loop is over, every worker of plan.workers has been launched
\* exactly once and nothing else has, whatever plan.execution_plan lists.
C15_EveryWorkerLaunchedOnce ==
    fanout_pc \in {"joining", "returned"} =>
        /\ \A w \in search_plan.workers :
              Cardinality({t \in DOMAIN tasks : tasks[t].worker_id = w}) = 1
        /\ \A t \in DOMAIN tasks : tasks[t].worker_id \in search_plan.workers

(***************************************************************************)
(* Properties of the aggregation                                           *)
(***************************************************************************)
\* the results in another order
Permute(results, p) == [i \in DOMAIN results |-> results[p[i]]]

\* what the claim compares of an item: its id, its kind and its relevance score
Scored(item) ==
    [name |-> item.name, kind |-> item.kind, relevance_score |-> item.relevance_score]

\* how often an item of that id, kind and score occurs in the bucket
Occurrences(bucket, scored) == Cardinality({k \in DOMAIN bucket : Scored(bucket[k]) = scored})

\* both contexts hold the same items, relevance scores included, in every bucket
SameItems(c1, c2) ==
    \A b \in Buckets :
        \A scored \in {Scored(c1[b][k]) : k \in DOMAIN c1[b]}
                         \cup {Scored(c2[b][k]) : k \in DOMAIN c2[b]} :
            Occurrences(c1[b], scored) = Occurrences(c2[b], scored)

\* C12: the compiled context holds, bucket by bucket, the same items with the same
\* relevance scores as the aggregation of the same worker results in any other order
\* would, chunks with a shared id and different confidence or kind included.
C12_OrderIndependent ==
    agg_pc = "compiled" =>
        \A p \in Permutations(DOMAIN results_in) :
            SameItems(compiled_context,
                      Aggregate(Permute(results_in, p), base_context, audit_outcome))

\* positions in the bucket of the items that were built from worker chunks
WorkerDerived(ctx, b) == {k \in DOMAIN ctx[b] : ctx[b][k].content # <<"gathered", 0>>}

\* C13: in the compiled context every worker-derived item lies in the bucket of its
\* kind; no bucket holds two worker-derived items with the same id; a chunk is absent
\* only when an earlier chunk with the same id went to the same bucket; and every
\* worker-derived item carries the confidence of the worker that produced it.
C13_FirstSeenWinsPerBucket ==
    agg_pc = "compiled" =>
        LET pairs == Flatten(results_in) IN
        /\ \A b \in Buckets : \A k \in WorkerDerived(compiled_context, b) :
              Bucket(compiled_context[b][k].kind) = b
        /\ \A b \in Buckets : \A k, l \in WorkerDerived(compiled_context, b) :
              compiled_context[b][k].name = compiled_context[b][l].name => k = l
        /\ \A i \in DOMAIN pairs :
              LET b == Bucket(pairs[i].chunk.kind) IN
              \/ ContextItem(pairs[i].chunk, pairs[i].confidence) \in Range(compiled_context[b])
              \/ \E j \in 1..(i-1) :
                    /\ pairs[j].chunk.id = pairs[i].chunk.id
                    /\ Bucket(pairs[j].chunk.kind) = b
        /\ \A b \in Buckets : \A k \in WorkerDerived(compiled_context, b) :
              \E i \in DOMAIN results_in :
                  /\ compiled_context[b][k].content = <<"found by", results_in[i].worker_id>>
                  /\ compiled_context[b][k].relevance_score = results_in[i].confidence

(***************************************************************************)
(* Properties of the monitor                                               *)
(***************************************************************************)
HasIssue(found, kind) == \E i \in DOMAIN found : found[i].kind = kind

\* the last 3 ids are identical, or the last 6 are two copies of one 3-id sequence
TailRepeats(ids) ==
    LET n == Len(ids) IN
    \/ n >= 3 /\ ids[n] = ids[n-1] /\ ids[n-1] = ids[n-2]
    \/ n >= 6 /\ \A k \in 0..2 : ids[n-k] = ids[n-3-k]

\* C4: a record_step_start raises total_steps by 1 and no outcome counter; a
\* record_step_complete of the id just started raises exactly one outcome counter by
\* 1 (successful_steps when success is true, failed_steps otherwise) and leaves
\* total_steps alone; on a fresh monitor the pair leaves total_steps = 1 and that one
\* outcome counter at 1, the other at 0.
C4_StartCompletePair ==
    /\ [](( /\ calls = 2
            /\ last_call.op = "record_step_complete"
            /\ Len(execution_history) = 1
            /\ execution_history[1].step_id = last_call.step_id )
          => /\ health_metrics.total_steps = 1
             /\ health_metrics.successful_steps = (IF last_call.success THEN 1 ELSE 0)
             /\ health_metrics.failed_steps = (IF last_call.success THEN 0 ELSE 1))
    /\ [][ (calls' = calls + 1 /\ last_call'.op = "record_step_start")
            => /\ health_metrics'.total_steps = health_metrics.total_steps + 1
               /\ health_metrics'.successful_steps = health_metrics.successful_steps
               /\ health_metrics'.failed_steps = health_metrics.failed_steps ]_vars
    /\ [][ ( /\ last_call.op = "record_step_start"
             /\ calls' = calls + 1
             /\ last_call'.op = "record_step_complete"
             /\ last_call'.step_id = last_call.step_id )
            => /\ health_metrics'.total_steps = health_metrics.total_steps
               /\ health_metrics'.successful_steps =
                      health_metrics.successful_steps + (IF last_call'.success THEN 1 ELSE 0)
               /\ health_metrics'.failed_steps =
                      health_metrics.failed_steps + (IF last_call'.success THEN 0 ELSE 1) ]_vars

\* a failed completion right after the only start on a fresh monitor
C4_Witness ==
    /\ calls = 2
    /\ last_call.op = "record_step_complete"
    /\ ~ last_call.success
    /\ Len(execution_history) = 1
    /\ execution_history[1].step_id = last_call.step_id
    /\ execution_history[1].completed_at # None
    /\ health_metrics.failed_steps = 1

\* indexes of the records of the id that are still open
OpenRecords(history, step_id) ==
    {i \in DOMAIN history : history[i].step_id = step_id /\ history[i].completed_at = None}

\* C16: record_step_complete(id, ..) closes the most recent record of id that is still
\* open, leaves every other record as it is and counts one outcome; when id has no
\* open record it changes no record and no counter.
C16_ClosesMostRecentOpen ==
    [][ (calls' = calls + 1 /\ last_call'.op = "record_step_complete") =>
          LET open == OpenRecords(execution_history, last_call'.step_id) IN
          IF open = {}
          THEN /\ execution_history' = execution_history
               /\ health_metrics' = health_metrics
          ELSE LET i == CHOOSE k \in open : \A j \in open : j <= k IN
               /\ execution_history'[i].completed_at # None
               /\ \A j \in DOMAIN execution_history :
                     j # i => execution_history'[j] = execution_history[j]
               /\ health_metrics'.successful_steps + health_metrics'.failed_steps
                     = health_metrics.successful_steps + health_metrics.failed_steps + 1 ]_vars

\* position of a finding's detector in check_health
DetectorRank(kind) ==
    CASE kind = "StuckState" -> 1
      [] kind = "HighFailureRate" -> 2
      [] kind = "InfiniteLoop" -> 3
      [] kind = "Timeout" -> 4
      [] kind = "ExcessiveRetries" -> 5

\* positions in the findings of the findings of that kind
IssuesOf(found, kind) == {i \in DOMAIN found : found[i].kind = kind}

\* the most recently started record is open and has been open for more than 120 s
LatestIsStuck ==
    /\ execution_history # <<>>
    /\ execution_history[Len(execution_history)].completed_at = None
    /\ now - execution_history[Len(execution_history)].started_at > 120

\* more than 5 steps started and more than half of the started steps failed
FailureRateIsHigh ==
    /\ health_metrics.total_steps > 5
    /\ 2 * health_metrics.failed_steps > health_metrics.total_steps

\* records that were closed more than 60 s after their start
TimedOutRecords ==
    {i \in DOMAIN execution_history :
        /\ execution_history[i].completed_at # None
        /\ execution_history[i].completed_at - execution_history[i].started_at > 60}

\* records retried more than 3 times
OverRetriedRecords ==
    {i \in DOMAIN execution_history : execution_history[i].retry_count > 3}

\* C17: the list check_health returns is sorted by detector (stuck, failure rate,
\* loop, timeout, excessive retries) and holds a detector's finding exactly when that
\* detector's own condition holds, whatever the other four found: one StuckState,
\* HighFailureRate or InfiniteLoop finding, one Timeout finding for each closed record
\* over 60 s and one ExcessiveRetries finding for each record retried more than 3 times.
C17_FiveDetectorsInOrder ==
    last_call.op = "check_health" =>
        /\ \A i, j \in DOMAIN issues :
              i < j => DetectorRank(issues[i].kind) <= DetectorRank(issues[j].kind)
        /\ Cardinality(IssuesOf(issues, "StuckState")) = (IF LatestIsStuck THEN 1 ELSE 0)
        /\ Cardinality(IssuesOf(issues, "HighFailureRate"))
              = (IF FailureRateIsHigh THEN 1 ELSE 0)
        /\ Cardinality(IssuesOf(issues, "InfiniteLoop"))
              = (IF TailRepeats(recent_steps) THEN 1 ELSE 0)
        /\ Cardinality(IssuesOf(issues, "Timeout")) = Cardinality(TimedOutRecords)
        /\ \A r \in TimedOutRecords : \E i \in IssuesOf(issues, "Timeout") :
              issues[i].step_id = execution_history[r].step_id
        /\ Cardinality(IssuesOf(issues, "ExcessiveRetries")) = Cardinality(OverRetriedRecords)
        /\ \A r \in OverRetriedRecords : \E i \in IssuesOf(issues, "ExcessiveRetries") :
              issues[i].step_id = execution_history[r].step_id

\* a check in which all five detectors found something
C17_Witness ==
    /\ last_call.op = "check_health"
    /\ Len(issues) = 5
    /\ \A k \in 1..5 : DetectorRank(issues[k].kind) = k

\* C19: check_health returns at most one StuckState finding; it returns one exactly
\* when the most recently started record is open and has been open for more than
\* 120 s, and the finding names that record; an older open record is never reported.
C19_StuckOnlyLatest ==
    last_call.op = "check_health" =>
        /\ Cardinality(IssuesOf(issues, "StuckState")) <= 1
        /\ HasIssue(issues, "StuckState") <=> LatestIsStuck
        /\ \A i \in IssuesOf(issues, "StuckState") :
              /\ issues[i].step_id = execution_history[Len(execution_history)].step_id
              /\ issues[i].duration
                    = now - execution_history[Len(execution_history)].started_at

\* an older step has been open for 180 s, a newer one for 60 s: nothing is reported
C19_Witness ==
    /\ last_call.op = "check_health"
    /\ Len(execution_history) >= 2
    /\ execution_history[1].completed_at = None
    /\ now - execution_history[1].started_at > 120
    /\ execution_history[Len(execution_history)].completed_at = None
    /\ now - execution_history[Len(execution_history)].started_at = 60
    /\ ~ HasIssue(issues, "StuckState")

\* C20: check_health reports HighFailureRate exactly when more than 5 steps have been
\* started (open ones included) and 2 * failed_steps > total_steps; never with 5 or
\* fewer started steps, and not when exactly half of the started steps failed.
C20_FailureRateThreshold ==
    last_call.op = "check_health" =>
        /\ HasIssue(issues, "HighFailureRate") <=> FailureRateIsHigh
        /\ health_metrics.total_steps <= 5 => ~ HasIssue(issues, "HighFailureRate")
        /\ 2 * health_metrics.failed_steps = health_metrics.total_steps
              => ~ HasIssue(issues, "HighFailureRate")
        /\ health_metrics.total_steps >= Len(execution_history)

\* seven steps started, one of them still open, four failed: reported
C20_Witness ==
    /\ last_call.op = "check_health"
    /\ health_metrics.total_steps = 7
    /\ health_metrics.failed_steps = 4
    /\ \E i \in DOMAIN execution_history : execution_history[i].completed_at = None
    /\ HasIssue(issues, "HighFailureRate")

\* the findings of that kind, in the order check_health returned them
FindingsOf(found, kind) == SelectSeq(found, LAMBDA f : f.kind = kind)

\* the k-th smallest index of a set of record indexes
NthOf(indexes, k) == CHOOSE r \in indexes : Cardinality({x \in indexes : x <= r}) = k

\* C21: check_health returns exactly one Timeout finding for every closed record of
\* the history whose duration (completion minus start) is more than 60 s, in history
\* order, and none for an open record or a shorter one; the finding's expected value
\* is 60 and its actual value the duration; a check that directly follows a check
\* returns the same Timeout findings again.
C21_TimeoutPerClosedRecord ==
    /\ [](last_call.op = "check_health" =>
             LET found == FindingsOf(issues, "Timeout") IN
             /\ Len(found) = Cardinality(TimedOutRecords)
             /\ \A k \in DOMAIN found :
                   LET record == execution_history[NthOf(TimedOutRecords, k)] IN
                   /\ record.completed_at # None
                   /\ found[k].step_id = record.step_id
                   /\ found[k].expected = 60
                   /\ found[k].actual = record.completed_at - record.started_at
                   /\ found[k].actual > 60)
    /\ [][ ( /\ last_call.op = "check_health"
             /\ calls' = calls + 1
             /\ last_call'.op = "check_health" )
            => FindingsOf(issues', "Timeout") = FindingsOf(issues, "Timeout") ]_vars

\* a check on a history of a step closed after 120 s and a step open for 120 s: the
\* closed one is the only one reported
C21_Witness ==
    /\ last_call.op = "check_health"
    /\ Len(execution_history) = 2
    /\ \E i, j \in DOMAIN execution_history :
          /\ execution_history[i].completed_at # None
          /\ execution_history[i].completed_at - execution_history[i].started_at = 120
          /\ execution_history[j].completed_at = None
          /\ now - execution_history[j].started_at = 120
    /\ Len(FindingsOf(issues, "Timeout")) = 1

\* indexes of the records of the id
RecordsOf(history, step_id) == {i \in DOMAIN history : history[i].step_id = step_id}

\* C22: record_retry(id) adds 1 to the retry counter of the most recent record of id
\* and changes nothing else: no other record, no completion, no counter, not the loop
\* window (and nothing at all when id has no record); check_health returns one
\* ExcessiveRetries finding for each record, open or closed, with retry_count > 3, in
\* history order and with that count, and none for a record retried 3 times or less.
C22_RetryCountsPerRecord ==
    /\ [][ (calls' = calls + 1 /\ last_call'.op = "record_retry") =>
             LET records == RecordsOf(execution_history, last_call'.step_id) IN
             /\ health_metrics' = health_metrics
             /\ recent_steps' = recent_steps
             /\ IF records = {}
                THEN execution_history' = execution_history
                ELSE LET i == CHOOSE k \in records : \A j \in records : j <= k IN
                     execution_history' =
                         [execution_history EXCEPT ![i].retry_count = @ + 1] ]_vars
    /\ [](last_call.op = "check_health" =>
             LET found == FindingsOf(issues, "ExcessiveRetries") IN
             /\ Len(found) = Cardinality(OverRetriedRecords)
             /\ \A k \in DOMAIN found :
                   LET record == execution_history[NthOf(OverRetriedRecords, k)] IN
                   /\ found[k].step_id = record.step_id
                   /\ found[k].retry_count = record.retry_count
                   /\ found[k].retry_count >= 4)

\* two instances of one id, the older retried 4 times and the newer once: the check
\* reports the older one alone
C22_Witness ==
    /\ last_call.op = "check_health"
    /\ Len(execution_history) = 2
    /\ execution_history[1].step_id = execution_history[2].step_id
    /\ execution_history[1].retry_count = 4
    /\ execution_history[2].retry_count = 1
    /\ FindingsOf(issues, "ExcessiveRetries")
          = <<[kind |-> "ExcessiveRetries", step_id |-> execution_history[1].step_id,
               retry_count |-> 4]>>

\* indexes of the closed records
ClosedRecords(history) == {i \in DOMAIN history : history[i].completed_at # None}

\* completion minus start of a closed record
DurationOf(record) == record.completed_at - record.started_at

\* C23: when a record_step_complete closes an open record with duration d, the new
\* average_step_duration is (old_avg * (n-1) + d) / n with n the number of records
\* closed so far, this one included (n = 1 gives d), and it lies between the smallest
\* and the largest duration of the closed records.
C23_AverageOverClosedRecords ==
    [][ (calls' = calls + 1 /\ last_call'.op = "record_step_complete") =>
          \A i \in DOMAIN execution_history :
              ( /\ execution_history[i].completed_at = None
                /\ execution_history'[i].completed_at # None ) =>
                  LET n == Cardinality(ClosedRecords(execution_history'))
                      d == DurationOf(execution_history'[i])
                      closed == {DurationOf(execution_history'[k]) :
                                    k \in ClosedRecords(execution_history')}
                  IN  /\ health_metrics'.average_step_duration
                            = (health_metrics.average_step_duration * (n - 1) + d) \div n
                      /\ \E lo, hi \in closed :
                            /\ lo <= health_metrics'.average_step_duration
                            /\ health_metrics'.average_step_duration <= hi ]_vars

\* C24: cleanup_history(keep_recent) leaves a history of at most keep_recent records
\* as it is and otherwise keeps exactly its last keep_recent records (the most
\* recently started ones) in their order; the health metrics and the loop window stay
\* as they are.
C24_CleanupKeepsMostRecent ==
    [][ (calls' = calls + 1 /\ last_call'.op = "cleanup_history") =>
          LET k == last_call'.keep_recent
              n == Len(execution_history)
          IN  /\ health_metrics' = health_metrics
              /\ recent_steps' = recent_steps
              /\ IF n <= k
                 THEN execution_history' = execution_history
                 ELSE /\ Len(execution_history') = k
                      /\ \A j \in 1..k :
                            execution_history'[j] = execution_history[n - k + j] ]_vars

\* three steps started at 0 s, 60 s and 120 s and the history trimmed to the last one
C24_Witness ==
    /\ last_call.op = "cleanup_history"
    /\ last_call.keep_recent = 1
    /\ health_metrics.total_steps = 3
    /\ Len(recent_steps) = 3
    /\ Len(execution_history) = 1
    /\ execution_history[1].started_at = 120

\* C28: after any sequence of calls on one monitor successful_steps + failed_steps is
\* at most total_steps, and it is the number of records closed so far (counted in the
\* history while no record has been trimmed from it).
C28_OutcomesCountClosedRecords ==
    /\ health_metrics.successful_steps + health_metrics.failed_steps
          <= health_metrics.total_steps
    /\ Len(execution_history) = health_metrics.total_steps =>
          health_metrics.successful_steps + health_metrics.failed_steps
              = Cardinality(ClosedRecords(execution_history))

\* C29: check_health leaves the history, the loop window, total_steps,
\* successful_steps, failed_steps and average_step_duration as they are; it adds 1 to
\* stuck_count exactly when it returns a StuckState finding and 1 to loop_count
\* exactly when it returns an InfiniteLoop finding; a check that follows a check at
\* the same instant, with no other call in between, returns the same findings.
C29_CheckHealthFrame ==
    /\ [][ (calls' = calls + 1 /\ last_call'.op = "check_health") =>
             /\ execution_history' = execution_history
             /\ recent_steps' = recent_steps
             /\ health_metrics' =
                    [health_metrics EXCEPT
                        !.stuck_count = @ + (IF HasIssue(issues', "StuckState") THEN 1 ELSE 0),
                        !.loop_count = @ + (IF HasIssue(issues', "InfiniteLoop") THEN 1 ELSE 0)]
           ]_vars
    /\ [][ ( /\ last_call.op = "check_health"
             /\ calls' = calls + 1
             /\ last_call'.op = "check_health"
             /\ last_call'.at = last_call.at )
            => issues' = issues ]_vars

\* two checks in a row at one instant on a step open for 180 s: both report the stuck
\* step and stuck_count is 2
C29_Witness ==
    /\ last_call.op = "check_health"
    /\ last_call.at = 180
    /\ calls = 3
    /\ health_metrics.total_steps = 1
    /\ health_metrics.stuck_count = 2
    /\ HasIssue(issues, "StuckState")

\* the ids of all steps started so far, in start order (no record has been trimmed)
StartedIds == [i \in DOMAIN execution_history |-> execution_history[i].step_id]

PlanIds(steps) == {steps[i].id : i \in DOMAIN steps}

UniqueIds(steps) == \A i, j \in DOMAIN steps : steps[i].id = steps[j].id => i = j

\* ids of the plan's steps that some step named id lists as a dependency
DependsOn(steps, id) ==
    {d \in PlanIds(steps) :
        \E i \in DOMAIN steps : steps[i].id = id /\ d \in Range(steps[i].dependencies)}

RECURSIVE ReachableFrom(_, _, _)
\* ids reachable from the ids in todo along dependency edges (todo included)
ReachableFrom(steps, todo, seen) ==
    IF todo \subseteq seen THEN seen
    ELSE ReachableFrom(steps,
                       UNION {DependsOn(steps, id) : id \in todo \ seen},
                       seen \cup todo)

\* the dependency graph of the plan has a cycle (a self-dependency included)
HasCycle(steps) ==
    \E id \in PlanIds(steps) : id \in ReachableFrom(steps, DependsOn(steps, id), {})

\* C1: for a plan with unique step ids, validate_plan returns the error exactly when
\* the dependency graph has a cycle; every acyclic plan is accepted.
C1_ValidateIffCycle ==
    (created /\ validated # "unchecked" /\ UniqueIds(plan))
        => (validated = "err" <=> HasCycle(plan))

\* an accepted plan in which one step is reached along two dependency paths:
\* a depends on b and c, and b depends on c
C1_Witness ==
    /\ validated = "ok"
    /\ \E a, b, c \in PlanIds(plan) :
          /\ a # b /\ b # c /\ a # c
          /\ {b, c} \subseteq DependsOn(plan, a)
          /\ c \in DependsOn(plan, b)

\* the plan with the fallback steps of every step removed
WithoutFallbacks(steps) == [i \in DOMAIN steps |-> [steps[i] EXCEPT !.fallback_steps = <<>>]]

\* some step and one of its fallback steps refer to each other: the fallback depends
\* on the step, or the step depends on the fallback and the fallback on a step
RefersBackThroughFallback(steps) ==
    \E i \in DOMAIN steps : \E f \in DOMAIN steps[i].fallback_steps :
        LET fallback == steps[i].fallback_steps[f] IN
        \/ Contains(fallback.dependencies, steps[i].id)
        \/ /\ Contains(steps[i].dependencies, fallback.id)
           /\ \E d \in DOMAIN fallback.dependencies : fallback.dependencies[d] \in PlanIds(steps)

\* C18: the verdict of validate_plan is the verdict on the plan with all fallback
\* steps removed, and it is the error exactly when the dependencies of the plan's own
\* steps form a cycle: a circular reference that passes through a fallback step does
\* not make a plan invalid.
C18_FallbacksNotTraversed ==
    (created /\ validated # "unchecked") =>
        /\ validated = validate_plan(WithoutFallbacks(plan))
        /\ validated = "err" <=> HasCycle(plan)
        /\ (RefersBackThroughFallback(plan) /\ ~ HasCycle(plan)) => validated = "ok"

\* an accepted plan in which a step depends on its fallback step and the fallback
\* step depends on that step
C18_Witness ==
    /\ validated = "ok"
    /\ \E i \in DOMAIN plan :
          /\ plan[i].fallback_steps # <<>>
          /\ Contains(plan[i].dependencies, plan[i].fallback_steps[1].id)
          /\ Contains(plan[i].fallback_steps[1].dependencies, plan[i].id)

\* every dependency of every step names a step of the plan
NoDanglingDependency(steps) ==
    \A i \in DOMAIN steps : Range(steps[i].dependencies) \subseteq PlanIds(steps)

\* with a step the set holds all of the step's dependencies
DependencyClosed(steps, completed) ==
    \A i \in DOMAIN steps :
        steps[i].id \in completed => Range(steps[i].dependencies) \subseteq completed

\* C26: for a plan validate_plan accepted, with unique step ids and no dependency on
\* a missing step, get_ready_steps returns some step whenever the completed steps are
\* dependency-closed and a step is still missing from them; a driver that keeps
\* completing one of the ready steps completes every step in the end, and never a
\* step before all of that step's dependencies.
C26_DriverCompletesPlan ==
    /\ []( ( /\ ready_called
             /\ validated = "ok" /\ UniqueIds(plan) /\ NoDanglingDependency(plan)
             /\ DependencyClosed(plan, completed_ids)
             /\ ~ (PlanIds(plan) \subseteq completed_ids) )
           => ready # <<>> )
    /\ [](ready_called => DependencyClosed(plan, completed_ids))
    /\ [][ ready_called =>
             \A i \in DOMAIN plan :
                 (plan[i].id \in completed_ids' \ completed_ids)
                    => Range(plan[i].dependencies) \subseteq completed_ids ]_vars
    /\ (validated = "ok" /\ UniqueIds(plan) /\ NoDanglingDependency(plan))
          ~> (ready_called /\ PlanIds(plan) \subseteq completed_ids /\ ready = <<>>)

\* the driver has completed a plan of three steps in which one step depends on the
\* two others and one of those on the other
C26_Witness ==
    /\ ready_called
    /\ Len(plan) = 3
    /\ PlanIds(plan) \subseteq completed_ids
    /\ \E a, b, c \in PlanIds(plan) :
          /\ a # b /\ b # c /\ a # c
          /\ {b, c} \subseteq DependsOn(plan, a)
          /\ c \in DependsOn(plan, b)

\* the step depends on an id that names no step of the plan
HasDanglingDependency(steps, step) == ~ (Range(step.dependencies) \subseteq PlanIds(steps))

\* the plan with every dependency on a missing step removed
WithoutDangling(steps) ==
    [i \in DOMAIN steps |->
        [steps[i] EXCEPT !.dependencies =
            SelectSeq(steps[i].dependencies, LAMBDA dep : dep \in PlanIds(steps))]]

\* C27: validate_plan skips a dependency that names no step of the plan: its verdict
\* is the verdict on the plan without such dependencies, the error exactly when the
\* dependencies between the plan's steps form a cycle; get_ready_steps returns no step
\* with such a dependency when completed_ids holds only ids of the plan's steps, so an
\* accepted plan can hold a step that is never ready.
C27_DanglingDependencySkipped ==
    /\ (created /\ validated # "unchecked") =>
          /\ validated = validate_plan(WithoutDangling(plan))
          /\ validated = "err" <=> HasCycle(plan)
    /\ (ready_called /\ completed_ids \subseteq PlanIds(plan)) =>
          \A k \in DOMAIN ready : ~ HasDanglingDependency(plan, ready[k])

\* an accepted plan of two steps, one depending on a missing step: with the other
\* step completed nothing is ready although the plan is not completed
C27_Witness ==
    /\ validated = "ok"
    /\ ready_called
    /\ Len(plan) = 2
    /\ \E i, j \in DOMAIN plan :
          /\ HasDanglingDependency(plan, plan[i])
          /\ plan[i].id \notin completed_ids
          /\ completed_ids = {plan[j].id}
    /\ ready = <<>>

\* the step satisfies the readiness condition for the given completed ids
IsReady(step, completed) ==
    /\ step.id \notin completed
    /\ Range(step.dependencies) \subseteq completed

\* C2: get_ready_steps returns, in plan order, exactly the steps whose id is not in
\* completed_ids and whose every dependency is in completed_ids; no step whose id is
\* in completed_ids is returned, and with completed_ids empty exactly the steps
\* without dependencies are.
C2_ReadyExact ==
    ready_called =>
        /\ \A i \in DOMAIN plan :
              IsReady(plan[i], completed_ids) <=> (\E k \in DOMAIN ready : ready[k] = plan[i])
        /\ \A k \in DOMAIN ready :
              /\ \E i \in DOMAIN plan : ready[k] = plan[i]
              /\ ready[k].id \notin completed_ids
        /\ \A k, l \in DOMAIN ready :
              k < l => \E i, j \in DOMAIN plan :
                          i < j /\ plan[i] = ready[k] /\ plan[j] = ready[l]
        /\ completed_ids = {} =>
              \A i \in DOMAIN plan :
                  (plan[i].dependencies = <<>>) <=> (\E k \in DOMAIN ready : ready[k] = plan[i])

\* a call where one step is already completed, one is returned as ready and one is
\* held back by an unmet dependency
C2_Witness ==
    /\ ready_called
    /\ Len(plan) = 3
    /\ Len(ready) = 1
    /\ \E i \in DOMAIN plan : plan[i].id \in completed_ids
    /\ \E i \in DOMAIN plan :
          plan[i].id \notin completed_ids /\ ~ IsReady(plan[i], completed_ids)
    /\ ready[1].dependencies # <<>>

\* C3: a plan with a dependency cycle is never held by a caller as a usable plan, and
\* none of its steps is ever reported ready, unless validate_plan has rejected it.
C3_CyclicPlanRejectedFirst ==
    HasCycle(plan) =>
        /\ created => validated = "err"
        /\ ready # <<>> => validated = "err"

=============================================================================
